---- MODULE Spec2Model ----
(***************************************************************************)
(* The embedded document store of CMDBSvc: MemoryCollection (insert, find, *)
(* update, delete, create_index, count, aggregate) as a state machine.     *)
(*                                                                         *)
(* Python values are tagged records, so that values of different Python    *)
(* types are comparable and unequal:                                       *)
(*   None -> [t |-> "null"], int -> [t |-> "int", i |-> n],                *)
(*   the n-th generated uuid string -> [t |-> "str", u |-> n],             *)
(*   the string "abc" -> [t |-> "str", s |-> "abc"],                       *)
(*   the string "$abc" (a field reference) -> [t |-> "str", ref |-> "abc"],*)
(*   list -> [t |-> "list", a |-> <<...>>],                                *)
(*   dict -> [t |-> "dict", d |-> [field |-> value]].                      *)
(* [t |-> "ref"] is a reference to the one list object the caller keeps a  *)
(* handle on; its content is the variable callerList.  Every other list is *)
(* reachable from one place only and is written inline.                    *)
(***************************************************************************)
EXTENDS Integers, Sequences, FiniteSets, TLC

VARIABLES
    documents,       \* self._documents: number of the uuid key |-> document
    indexes,         \* self._indexes, in creation order: <<[field, vals]>>
    unique_indexes,  \* self._unique_indexes
    nextId,          \* how many uuids uuid.uuid4() has handed out
    callerList,      \* content of the list object the caller holds
    last,            \* the most recent call and what it returned or raised
    driver,          \* the caller's loop of repeated update_one calls
    cursor,          \* the ListCursor the caller holds (None: no cursor)
    instance,        \* DatabaseFactory._instance: 0 (None) or the adapter's number
    database_type,   \* DatabaseFactory._database_type
    adapters,        \* every adapter object create_database has made
    colls,           \* every MemoryCollection object the adapters have made
    threads          \* the calls in progress when calls run concurrently

\* The factory, its adapters and their collections, the caller's cursor and
\* the calls in progress: what a call on the one collection leaves alone.
env_but_threads == <<cursor, instance, database_type, adapters, colls>>
env == <<cursor, instance, database_type, adapters, colls, threads>>

vars == <<documents, indexes, unique_indexes, nextId, callerList, last, driver, env>>

\* ------------------------------------------------------------------ bounds
MaxIds == 2
MaxInt == 2
MaxList == 1
MaxCalls == 3
MaxAggDocs == 3
MaxSkip == 2
MaxAdapters == 2
MaxColls == 4

\* ------------------------------------------------------------------ values
Null == [t |-> "null"]
IntV(i) == [t |-> "int", i |-> i]
Uuid(n) == [t |-> "str", u |-> n]
StrV(s) == [t |-> "str", s |-> s]
FieldRef(f) == [t |-> "str", ref |-> f]
ListV(s) == [t |-> "list", a |-> s]
DictV(d) == [t |-> "dict", d |-> d]
Ref == [t |-> "ref"]

EmptyDict == [f \in {} |-> Null]
Dict1(f, v) == [x \in {f} |-> v]

\* The value an expression denotes when the caller's list holds `heap`: a
\* reference is followed to the list.  This is also copy.deepcopy of the
\* value: the copy of a list reached through a reference is a list of its
\* own.  Lists hold scalars only (the inputs put no list inside a list).
CopyIn(v, heap) == IF v.t = "ref" THEN ListV(heap) ELSE v
DeepcopyValue(v) == CopyIn(v, callerList)

\* copy.deepcopy of a document.
DeepcopyIn(doc, heap) == [f \in DOMAIN doc |-> CopyIn(doc[f], heap)]
Deepcopy(doc) == DeepcopyIn(doc, callerList)

\* Python's == on values and on documents compares content, not identity.
EqIn(a, b, heap) == CopyIn(a, heap) = CopyIn(b, heap)
PyEq(a, b) == EqIn(a, b, callerList)
DocEqIn(d1, d2, heap) == DeepcopyIn(d1, heap) = DeepcopyIn(d2, heap)

\* dict.get(field): None when the key is absent.
Get(doc, field) == IF field \in DOMAIN doc THEN doc[field] ELSE Null

\* A value set.add() accepts: lists and dicts are unhashable.
Hashable(v) == v.t \notin {"list", "dict", "ref"}

\* The documents in dict iteration order (insertion order = uuid number).
RECURSIVE SortedIds(_)
SortedIds(S) ==
    IF S = {} THEN <<>>
    ELSE LET m == CHOOSE x \in S : \A y \in S : x <= y
         IN <<m>> \o SortedIds(S \ {m})

DocIds == SortedIds(DOMAIN documents)

\* ------------------------------------------------------------------ filter
MatchesIn_Get(document, filter_dict, heap) ==
    \A key \in DOMAIN filter_dict :
        EqIn(IF key \in DOMAIN document THEN document[key] ELSE Null,
             filter_dict[key], heap)
MatchesIn(document, filter_dict, heap) ==
    \A key \in DOMAIN filter_dict :
        /\ key \in DOMAIN document
        /\ EqIn(document[key], filter_dict[key], heap)
matches_filter(document, filter_dict) == MatchesIn(document, filter_dict, callerList)

\* The first stored document matching the filter, 0 when there is none.
FirstMatch(filter_dict) ==
    LET hits == {id \in DOMAIN documents : matches_filter(documents[id], filter_dict)}
    IN IF hits = {} THEN 0 ELSE CHOOSE id \in hits : \A o \in hits : id <= o

\* ------------------------------------------------------------ _apply_update
\* An update_dict is a Python dict in insertion order: a sequence of
\* [key |-> operation, val |-> updates].  The outcome of _apply_update is
\* [ok |-> TRUE, doc |-> the updated copy, heap |-> the caller's list after
\* the call], or [ok |-> FALSE, heap |-> ...] when the interpreter raises (TypeError,
\* AttributeError) before returning.
Failed(heap) == [ok |-> FALSE, heap |-> heap]
Done(doc, heap) == [ok |-> TRUE, doc |-> doc, heap |-> heap]

IsDict(v) == v.t = "dict"

\* a + b: defined for two ints and for two lists, a TypeError otherwise
\* (the inputs of this model hold no floats, bools or free-form strings).
CanAdd(a, b, heap) ==
    LET x == CopyIn(a, heap)
        y == CopyIn(b, heap)
    IN \/ x.t = "int" /\ y.t = "int"
       \/ x.t = "list" /\ y.t = "list"
Add(a, b, heap) ==
    LET x == CopyIn(a, heap)
        y == CopyIn(b, heap)
    IN IF x.t = "int" THEN IntV(x.i + y.i) ELSE ListV(x.a \o y.a)

\* "$set": doc[field] = value, the value object itself (no copy).
ApplySet(doc, updates) ==
    [f \in DOMAIN doc \cup DOMAIN updates |->
        IF f \in DOMAIN updates THEN updates[f] ELSE doc[f]]

\* "$unset": doc.pop(field, None)
ApplyUnset(doc, updates) ==
    [f \in DOMAIN doc \ DOMAIN updates |-> doc[f]]

\* "$inc": doc[field] = doc.get(field, 0) + increment
IncOk(doc, updates, heap) ==
    \A f \in DOMAIN updates :
        CanAdd(IF f \in DOMAIN doc THEN doc[f] ELSE IntV(0), updates[f], heap)
ApplyInc_Overwrite(doc, updates, heap) ==
    [f \in DOMAIN doc \cup DOMAIN updates |->
        IF f \in DOMAIN updates THEN updates[f] ELSE doc[f]]
ApplyInc_DefaultOne(doc, updates, heap) ==
    [f \in DOMAIN doc \cup DOMAIN updates |->
        IF f \in DOMAIN updates
        THEN Add(IF f \in DOMAIN doc THEN doc[f] ELSE IntV(1), updates[f], heap)
        ELSE doc[f]]
ApplyInc(doc, updates, heap) ==
    [f \in DOMAIN doc \cup DOMAIN updates |->
        IF f \in DOMAIN updates
        THEN Add(IF f \in DOMAIN doc THEN doc[f] ELSE IntV(0), updates[f], heap)
        ELSE doc[f]]

InList(value, s, heap) == \E i \in DOMAIN s : EqIn(s[i], value, heap)

\* "$addToSet": if field not in doc: doc[field] = []
\*              if value not in doc[field]: doc[field].append(value)
\* `value not in x` raises for None and int; for a str it is a substring
\* test that raises unless value is a str; x.append raises for str and dict.
AddToSetOk(doc, updates, heap) ==
    \A f \in DOMAIN updates :
        f \in DOMAIN doc =>
            \/ doc[f].t \in {"list", "ref"}
            \/ doc[f].t = "str" /\ updates[f] = doc[f]
ApplyAddToSet_AlwaysAppends(doc, updates, heap) ==
    [f \in DOMAIN doc \cup DOMAIN updates |->
        IF f \notin DOMAIN updates THEN doc[f]
        ELSE IF f \notin DOMAIN doc THEN ListV(<<updates[f]>>)
        ELSE IF doc[f].t = "list" THEN ListV(Append(doc[f].a, updates[f]))
        ELSE doc[f]]
ApplyAddToSet(doc, updates, heap) ==
    [f \in DOMAIN doc \cup DOMAIN updates |->
        IF f \notin DOMAIN updates THEN doc[f]
        ELSE IF f \notin DOMAIN doc THEN ListV(<<updates[f]>>)
        ELSE IF doc[f].t = "list" /\ ~InList(updates[f], doc[f].a, heap)
             THEN ListV(Append(doc[f].a, updates[f]))
        ELSE doc[f]]
\* The append lands in the caller's own list when an earlier "$set" of the
\* same update_dict stored that list in the field.
HeapAfterAddToSet(doc, updates, heap) ==
    LET hit == {f \in DOMAIN updates \cap DOMAIN doc :
                   doc[f].t = "ref" /\ ~InList(updates[f], heap, heap)}
    IN IF hit = {} THEN heap
       ELSE LET f == CHOOSE x \in hit : TRUE
            IN Append(heap, updates[f])

\* "$pull": doc[field] = [item for item in doc[field] if item != value]
RECURSIVE Without_FirstOnly(_, _, _)
Without_FirstOnly(s, value, heap) ==
    IF s = <<>> THEN <<>>
    ELSE IF EqIn(Head(s), value, heap) THEN Tail(s)
    ELSE <<Head(s)>> \o Without_FirstOnly(Tail(s), value, heap)
RECURSIVE Without(_, _, _)
Without(s, value, heap) ==
    IF s = <<>> THEN <<>>
    ELSE IF EqIn(Head(s), value, heap) THEN Without(Tail(s), value, heap)
    ELSE <<Head(s)>> \o Without(Tail(s), value, heap)
ApplyPull(doc, updates, heap) ==
    [f \in DOMAIN doc |->
        IF f \in DOMAIN updates /\ doc[f].t \in {"list", "ref"}
        THEN ListV(Without(IF doc[f].t = "ref" THEN heap ELSE doc[f].a, updates[f], heap))
        ELSE doc[f]]

\* doc.update(update_dict): every key of the update_dict, operators too.
ApplyMerge(doc, update_dict) ==
    LET keys == {update_dict[i].key : i \in DOMAIN update_dict}
        valOf(k) == update_dict[CHOOSE i \in DOMAIN update_dict : update_dict[i].key = k].val
    IN [f \in DOMAIN doc \cup keys |-> IF f \in keys THEN valOf(f) ELSE doc[f]]

Operators == {"$set", "$unset", "$inc", "$addToSet", "$pull"}

\* The loop `for operation, updates in update_dict.items()` from item i on.
RECURSIVE ApplyFrom(_, _, _, _)
ApplyFrom(doc, update_dict, i, heap) ==
    IF i > Len(update_dict) THEN Done(doc, heap)
    ELSE LET operation == update_dict[i].key
             updates == update_dict[i].val
         IN IF operation \notin Operators
            THEN Done(ApplyMerge(doc, update_dict), heap)
            ELSE IF ~IsDict(updates) THEN Failed(heap)
            ELSE IF operation = "$set"
                 THEN ApplyFrom(ApplySet(doc, updates.d), update_dict, i + 1, heap)
            ELSE IF operation = "$unset"
                 THEN ApplyFrom(ApplyUnset(doc, updates.d), update_dict, i + 1, heap)
            ELSE IF operation = "$inc"
                 THEN IF IncOk(doc, updates.d, heap)
                      THEN ApplyFrom(ApplyInc(doc, updates.d, heap), update_dict, i + 1, heap)
                      ELSE Failed(heap)
            ELSE IF operation = "$addToSet"
                 THEN IF AddToSetOk(doc, updates.d, heap)
                      THEN ApplyFrom(ApplyAddToSet(doc, updates.d, heap), update_dict, i + 1,
                                     HeapAfterAddToSet(doc, updates.d, heap))
                      ELSE Failed(heap)
            ELSE ApplyFrom(ApplyPull(doc, updates.d, heap), update_dict, i + 1, heap)

\* _apply_update(document, update_dict): works on a deep copy.
apply_update(document, update_dict) ==
    ApplyFrom(Deepcopy(document), update_dict, 1, callerList)

\* ------------------------------------------------------------------- calls
\* The record of the most recent call: its arguments and its outcome.
\* raised is "none", "DuplicateKey" (the ValueError of a unique index) or
\* "TypeError"; ret is what the call returned.
Call(op, arg, upd, raised, matched, modified, ret) ==
    [op |-> op, arg |-> arg, upd |-> upd, raised |-> raised,
     matched |-> matched, modified |-> modified, ret |-> ret]

NoCall == Call("none", EmptyDict, <<>>, "none", 0, 0, Null)

\* any(other_doc.get(field) == value for the documents of `docs` but `skip`)
HeldByOther(docs, skip, field, value, heap) ==
    \E id \in DOMAIN docs \ {skip} : EqIn(Get(docs[id], field), value, heap)

\* -------------------------------------------------------------- insert_one
\* The unique-constraint loop of insert_one: some unique field of the copy
\* equals what a stored document returns from .get(field).
InsertCollides_SkipsNone(doc_copy) ==
    \E field \in unique_indexes :
        /\ field \in DOMAIN doc_copy
        /\ doc_copy[field] # Null
        /\ HeldByOther(documents, 0, field, doc_copy[field], callerList)
InsertCollides(doc_copy) ==
    \E field \in unique_indexes :
        /\ field \in DOMAIN doc_copy
        /\ HeldByOther(documents, 0, field, doc_copy[field], callerList)

\* `for field, index in self._indexes.items(): index.add(doc_copy[field])`:
\* the position of the first index whose add raises (unhashable), else 0.
FirstUnhashable(idx, doc) ==
    LET bad == {i \in DOMAIN idx :
                   idx[i].field \in DOMAIN doc /\ ~Hashable(doc[idx[i].field])}
    IN IF bad = {} THEN 0 ELSE CHOOSE i \in bad : \A j \in bad : i <= j

IndexesAfterInsert(idx, doc) ==
    LET stop == FirstUnhashable(idx, doc)
    IN [i \in DOMAIN idx |->
          IF (stop = 0 \/ i < stop) /\ idx[i].field \in DOMAIN doc
          THEN [idx[i] EXCEPT !.vals = @ \cup {doc[idx[i].field]}]
          ELSE idx[i]]

\* doc_copy = deepcopy(document); doc_copy["_id"] = doc_id
NewDocument_KeepsCallerId(document, doc_id) ==
    [f \in DOMAIN document \cup {"_id"} |->
        IF f \in DOMAIN document THEN DeepcopyValue(document[f]) ELSE Uuid(doc_id)]
NewDocument(document, doc_id) ==
    [f \in DOMAIN document \cup {"_id"} |->
        IF f = "_id" THEN Uuid(doc_id) ELSE DeepcopyValue(document[f])]

InsertOne(document) ==
    LET doc_id == nextId + 1
        doc_copy == NewDocument(document, doc_id)
    IN /\ nextId < MaxIds
       /\ IF InsertCollides(doc_copy)
          THEN /\ last' = Call("insert_one", document, <<>>, "DuplicateKey", 0, 0, Null)
               /\ UNCHANGED <<documents, indexes, unique_indexes, nextId, callerList>>
          ELSE /\ documents' = [id \in DOMAIN documents \cup {doc_id} |->
                                   IF id = doc_id THEN doc_copy ELSE documents[id]]
               /\ indexes' = IndexesAfterInsert(indexes, doc_copy)
               /\ nextId' = doc_id
               /\ last' = Call("insert_one", document, <<>>,
                               IF FirstUnhashable(indexes, doc_copy) = 0
                               THEN "none" ELSE "TypeError",
                               0, 0, Uuid(doc_id))
               /\ UNCHANGED <<unique_indexes, callerList>>

\* ------------------------------------------------------------ create_index
\* The backfill loop adds doc[field] of every stored document in order and
\* raises at the first unhashable value.
CreateIndex(field, unique) ==
    LET pos == {i \in DOMAIN indexes : indexes[i].field = field}
        idx0 == IF pos = {} THEN Append(indexes, [field |-> field, vals |-> {}])
                ELSE indexes
        at == CHOOSE i \in DOMAIN idx0 : idx0[i].field = field
        have == {id \in DOMAIN documents : field \in DOMAIN documents[id]}
        bad == {id \in have : ~Hashable(documents[id][field])}
        stop == IF bad = {} THEN 0 ELSE CHOOSE id \in bad : \A o \in bad : id <= o
        added == {documents[id][field] : id \in {x \in have : stop = 0 \/ x < stop}}
    IN /\ indexes' = [idx0 EXCEPT ![at].vals = @ \cup added]
       /\ unique_indexes' = IF unique THEN unique_indexes \cup {field} ELSE unique_indexes
       /\ last' = Call("create_index", field, unique,
                       IF stop = 0 THEN "none" ELSE "TypeError", 0, 0, Null)
       /\ UNCHANGED <<documents, nextId, callerList>>

\* -------------------------------------------------------------- update_one
\* The unique-constraint loop of update_one and update_many for the
\* document stored under doc_id: some unique field of updated_doc differs
\* from original_doc.get(field) and equals other_doc.get(field) of another
\* stored document.
UpdateCollides(docs, doc_id, original_doc, updated_doc, heap) ==
    \E field \in unique_indexes :
        /\ field \in DOMAIN updated_doc
        /\ ~EqIn(updated_doc[field], Get(original_doc, field), heap)
        /\ HeldByOther(docs, doc_id, field, updated_doc[field], heap)

\* modified = updated_doc != original_doc
IsModified_Always(updated_doc, original_doc, heap) == TRUE
IsModified(updated_doc, original_doc, heap) ==
    DeepcopyIn(updated_doc, heap) # original_doc

UpdateOne(filter_dict, update_dict) ==
    LET doc_id == FirstMatch(filter_dict)
    IN IF doc_id = 0
       THEN /\ last' = Call("update_one", filter_dict, update_dict, "none", 0, 0, Null)
            /\ UNCHANGED <<documents, indexes, unique_indexes, nextId, callerList>>
       ELSE LET original_doc == Deepcopy(documents[doc_id])
                r == apply_update(documents[doc_id], update_dict)
            IN /\ callerList' = r.heap
               /\ UNCHANGED <<indexes, unique_indexes, nextId>>
               /\ IF ~r.ok
                  THEN /\ last' = Call("update_one", filter_dict, update_dict,
                                       "TypeError", 0, 0, Null)
                       /\ UNCHANGED documents
                  ELSE IF UpdateCollides(documents, doc_id, original_doc, r.doc, r.heap)
                  THEN /\ last' = Call("update_one", filter_dict, update_dict,
                                       "DuplicateKey", 0, 0, Null)
                       /\ UNCHANGED documents
                  ELSE /\ documents' = [documents EXCEPT ![doc_id] = r.doc]
                       /\ last' = Call("update_one", filter_dict, update_dict, "none", 1,
                                       IF IsModified(r.doc, original_doc, r.heap)
                                       THEN 1 ELSE 0,
                                       Null)

\* ------------------------------------------------------------- update_many
\* The loop of update_many over list(self._documents.items()), from the
\* i-th document of the snapshot on.  acc holds self._documents, the
\* caller's list and the two counters as the loop has left them; the loop
\* ends at the first raise.
RECURSIVE UpdateManyFrom(_, _, _, _, _)
UpdateManyFrom(snapshot, i, filter_dict, update_dict, acc) ==
    IF i > Len(snapshot) THEN acc
    ELSE LET doc_id == snapshot[i]
             doc == documents[doc_id]
         IN IF ~MatchesIn(doc, filter_dict, acc.heap)
            THEN UpdateManyFrom(snapshot, i + 1, filter_dict, update_dict, acc)
            ELSE LET original_doc == DeepcopyIn(doc, acc.heap)
                     r == ApplyFrom(original_doc, update_dict, 1, acc.heap)
                     counted == [acc EXCEPT !.matched = @ + 1, !.heap = r.heap]
                 IN IF ~r.ok THEN [counted EXCEPT !.raised = "TypeError"]
                    ELSE IF UpdateCollides(acc.docs, doc_id, original_doc, r.doc, r.heap)
                    THEN [counted EXCEPT !.raised = "DuplicateKey"]
                    ELSE UpdateManyFrom(snapshot, i + 1, filter_dict, update_dict,
                            [counted EXCEPT
                                !.docs = [acc.docs EXCEPT ![doc_id] = r.doc],
                                !.modified = IF IsModified(r.doc, original_doc, r.heap)
                                             THEN @ + 1 ELSE @])

UpdateMany(filter_dict, update_dict) ==
    LET r == UpdateManyFrom(DocIds, 1, filter_dict, update_dict,
                 [docs |-> documents, heap |-> callerList, matched |-> 0,
                  modified |-> 0, raised |-> "none"])
    IN /\ documents' = r.docs
       /\ callerList' = r.heap
       /\ last' = IF r.raised = "none"
                  THEN Call("update_many", filter_dict, update_dict, "none",
                            r.matched, r.modified, Null)
                  ELSE Call("update_many", filter_dict, update_dict, r.raised, 0, 0, Null)
       /\ UNCHANGED <<indexes, unique_indexes, nextId>>

\* ------------------------------------------------------------------ delete
DeleteOne(filter_dict) ==
    LET doc_id == FirstMatch(filter_dict)
    IN /\ documents' = [id \in DOMAIN documents \ {doc_id} |-> documents[id]]
       /\ last' = Call("delete_one", filter_dict, <<>>, "none", 0, 0,
                       IF doc_id = 0 THEN 0 ELSE 1)
       /\ UNCHANGED <<indexes, unique_indexes, nextId, callerList>>

DeleteMany_FirstOnly(filter_dict) ==
    LET doc_id == FirstMatch(filter_dict)
    IN /\ documents' = [id \in DOMAIN documents \ {doc_id} |-> documents[id]]
       /\ last' = Call("delete_many", filter_dict, <<>>, "none", 0, 0,
                       IF doc_id = 0 THEN 0 ELSE 1)
       /\ UNCHANGED <<indexes, unique_indexes, nextId, callerList>>
DeleteMany(filter_dict) ==
    LET to_delete == {id \in DOMAIN documents : matches_filter(documents[id], filter_dict)}
    IN /\ documents' = [id \in DOMAIN documents \ to_delete |-> documents[id]]
       /\ last' = Call("delete_many", filter_dict, <<>>, "none", 0, 0,
                       Cardinality(to_delete))
       /\ UNCHANGED <<indexes, unique_indexes, nextId, callerList>>

\* ------------------------------------------------------------------- reads
\* What find_one returns: a deep copy of the first match, or None.
FindOneResult(filter_dict) ==
    LET doc_id == FirstMatch(filter_dict)
    IN IF doc_id = 0 THEN Null ELSE Deepcopy(documents[doc_id])

FindOne(filter_dict) ==
    /\ last' = Call("find_one", filter_dict, <<>>, "none", 0, 0, FindOneResult(filter_dict))
    /\ UNCHANGED <<documents, indexes, unique_indexes, nextId, callerList>>

\* What find returns (the list a ListCursor wraps): deep copies of the
\* matching documents in iteration order; `filter_dict or {}` turns an
\* absent filter (None) into the empty one.
OrEmpty(filter_dict) == IF filter_dict = Null THEN EmptyDict ELSE filter_dict

FindResults(filter_dict) ==
    LET hit(id) == matches_filter(documents[id], OrEmpty(filter_dict))
        ids == SelectSeq(DocIds, hit)
    IN [i \in DOMAIN ids |-> Deepcopy(documents[ids[i]])]

Find(filter_dict) ==
    /\ last' = Call("find", filter_dict, <<>>, "none", 0, 0, FindResults(filter_dict))
    /\ UNCHANGED <<documents, indexes, unique_indexes, nextId, callerList>>

\* count_documents: the loop counts the matching documents.
CountResult(filter_dict) ==
    Cardinality({id \in DOMAIN documents :
                    matches_filter(documents[id], OrEmpty(filter_dict))})

CountDocuments(filter_dict) ==
    /\ last' = Call("count_documents", filter_dict, <<>>, "none", 0, 0,
                    CountResult(filter_dict))
    /\ UNCHANGED <<documents, indexes, unique_indexes, nextId, callerList>>

\* --------------------------------------------------------------- aggregate
\* A pipeline is a sequence of stages [name |-> stage_name, config |->
\* stage_config].  A stage yields [ok |-> TRUE, results |-> list] or, when
\* the interpreter raises, [ok |-> FALSE].
StageOk(results) == [ok |-> TRUE, results |-> results]
StageRaised == [ok |-> FALSE]

\* "$match": [doc for doc in results if self._matches_filter(doc, config)]
StageMatch(results, config) ==
    LET keep(doc) == matches_filter(doc, config)
    IN StageOk(SelectSeq(results, keep))

\* results[:n] and results[n:] with Python's reading of a negative n.
Max2(a, b) == IF a >= b THEN a ELSE b
Min2(a, b) == IF a <= b THEN a ELSE b
SliceTo(results, n) ==
    SubSeq(results, 1, IF n >= 0 THEN Min2(n, Len(results)) ELSE Max2(Len(results) + n, 0))
SliceFrom(results, n) ==
    SubSeq(results,
           (IF n >= 0 THEN Min2(n, Len(results)) ELSE Max2(Len(results) + n, 0)) + 1,
           Len(results))

\* "$count": [{count_field: len(results)}], count_field the config when it
\* is a str and "count" otherwise.
StageCount(results, config) ==
    LET count_field == IF config.t = "str" THEN config.s ELSE "count"
    IN StageOk(<<Dict1(count_field, IntV(Len(results)))>>)

\* "$project": config maps field -> 1 | 0.
ProjectDoc(doc, config) ==
    LET included == {f \in DOMAIN config : config[f] = 1 /\ f \in DOMAIN doc}
        copied == UNION {DOMAIN doc \ {f} : f \in {x \in DOMAIN config :
                                                     config[x] = 0 /\ x # "_id"}}
        with_id == IF ("_id" \notin DOMAIN config \/ config["_id"] = 1)
                      /\ "_id" \in DOMAIN doc
                   THEN {"_id"} ELSE {}
    IN [f \in included \cup copied \cup with_id |-> doc[f]]
StageProject(results, config) ==
    StageOk([i \in DOMAIN results |-> ProjectDoc(results[i], config)])

\* "$group": config is [id |-> stage_config.get("_id"), accs |-> the other
\* keys, field |-> operation], an operation being a one-key dict
\* {op_name: op_field} or any other value.
GroupKey(doc, group_id) ==
    IF group_id = Null THEN Null
    ELSE IF group_id.t = "str" /\ "ref" \in DOMAIN group_id THEN Get(doc, group_id.ref)
    ELSE group_id

\* The group keys in the order the loop first meets them.
RECURSIVE GroupKeys(_, _, _)
GroupKeys(results, group_id, seen) ==
    IF results = <<>> THEN seen
    ELSE LET key == GroupKey(Head(results), group_id)
         IN GroupKeys(Tail(results), group_id,
                      IF \E i \in DOMAIN seen : seen[i] = key THEN seen
                      ELSE Append(seen, key))

RECURSIVE SumInts(_, _)
SumInts(docs, field_name) ==
    IF docs = <<>> THEN 0
    ELSE (IF Get(Head(docs), field_name).t = "int" THEN Head(docs)[field_name].i ELSE 0)
         + SumInts(Tail(docs), field_name)

\* Whether an operation sets the output field, and to what.
AccSets(operation) ==
    /\ operation.t = "dict"
    /\ LET op_name == CHOOSE k \in DOMAIN operation.d : TRUE
           op_field == operation.d[op_name]
       IN \/ op_name = "$count"
          \/ op_name = "$sum" /\ op_field = IntV(1)
          \/ op_name = "$sum" /\ op_field.t = "str" /\ "ref" \in DOMAIN op_field
AccValue_AlwaysOne(operation, group_docs) == IntV(1)
AccValue(operation, group_docs) ==
    LET op_name == CHOOSE k \in DOMAIN operation.d : TRUE
        op_field == operation.d[op_name]
    IN IF op_name = "$count" \/ op_field = IntV(1) THEN IntV(Len(group_docs))
       ELSE IntV(SumInts(group_docs, op_field.ref))

StageGroup(results, config) ==
    LET keyOf(doc) == GroupKey(doc, config.id)
        keys == GroupKeys(results, config.id, <<>>)
        set_fields == {f \in DOMAIN config.accs : AccSets(config.accs[f])}
        group(key) ==
            LET member(doc) == keyOf(doc) = key
                group_docs == SelectSeq(results, member)
            IN [f \in {"_id"} \cup set_fields |->
                   IF f = "_id" THEN key ELSE AccValue(config.accs[f], group_docs)]
    IN IF \E i \in DOMAIN results : ~Hashable(keyOf(results[i]))
       THEN StageRaised
       ELSE StageOk([i \in DOMAIN keys |-> group(keys[i])])

\* "$sort": config is the ordered mapping <<[field, direction]>>.
\* sort_key: doc.get(field, 0), None read as "", an int negated when the
\* direction is not 1.
SortKey(doc, config) ==
    [i \in DOMAIN config |->
        LET got == IF config[i].field \in DOMAIN doc THEN doc[config[i].field] ELSE IntV(0)
            value == IF got = Null THEN StrV("") ELSE got
        IN IF config[i].direction # 1 /\ value.t = "int" THEN IntV(-value.i) ELSE value]

\* The strings the inputs sort on, in Python's order of str.
StrOrder == <<"", "Eng", "Ops">>
StrRank(v) == CHOOSE i \in DOMAIN StrOrder : StrOrder[i] = v.s

\* a < b on two key lists: decided at the first position where they differ;
\* an int and a str there (or lists, dicts) make Python raise TypeError.
FirstDiff(a, b) ==
    LET diff == {i \in DOMAIN a : a[i] # b[i]}
    IN IF diff = {} THEN 0 ELSE CHOOSE i \in diff : \A j \in diff : i <= j
KeysComparable(a, b) ==
    LET i == FirstDiff(a, b)
    IN i = 0 \/ (a[i].t = b[i].t /\ a[i].t \in {"int", "str"})
KeyLess(a, b) ==
    LET i == FirstDiff(a, b)
    IN /\ i # 0
       /\ IF a[i].t = "int" THEN a[i].i < b[i].i ELSE StrRank(a[i]) < StrRank(b[i])

\* list.sort(key=...) is stable: an element goes behind the elements that
\* are not greater than it.
RECURSIVE InsertSorted(_, _, _)
InsertSorted(sorted, doc, config) ==
    IF sorted = <<>> THEN <<doc>>
    ELSE IF KeyLess(SortKey(doc, config), SortKey(Head(sorted), config))
         THEN <<doc>> \o sorted
         ELSE <<Head(sorted)>> \o InsertSorted(Tail(sorted), doc, config)
RECURSIVE StableSort(_, _, _)
StableSort(results, config, sorted) ==
    IF results = <<>> THEN sorted
    ELSE StableSort(Tail(results), config, InsertSorted(sorted, Head(results), config))

Reverse(results) == [i \in DOMAIN results |-> results[Len(results) + 1 - i]]

\* results.sort(key=sort_key, reverse=any(direction == -1 ...)): a reverse
\* sort keeps equal keys in their original order.
StageSort(results, config) ==
    LET reverse == \E i \in DOMAIN config : config[i].direction = -1
    IN IF \E i \in DOMAIN results, j \in DOMAIN results :
             ~KeysComparable(SortKey(results[i], config), SortKey(results[j], config))
       THEN StageRaised
       ELSE IF reverse
            THEN StageOk(Reverse(StableSort(Reverse(results), config, <<>>)))
            ELSE StageOk(StableSort(results, config, <<>>))

\* One stage of the pipeline; an unsupported stage is skipped with a warning.
RunStage(results, stage) ==
    IF stage.name = "$match"
    THEN IF stage.config = Null
         THEN IF results = <<>> THEN StageOk(results) ELSE StageRaised
         ELSE StageMatch(results, stage.config)
    ELSE IF stage.name = "$sort" THEN StageSort(results, stage.config)
    ELSE IF stage.name = "$limit" THEN StageOk(SliceTo(results, stage.config))
    ELSE IF stage.name = "$skip" THEN StageOk(SliceFrom(results, stage.config))
    ELSE IF stage.name = "$project" THEN StageProject(results, stage.config)
    ELSE IF stage.name = "$group" THEN StageGroup(results, stage.config)
    ELSE IF stage.name = "$count" THEN StageCount(results, stage.config)
    ELSE StageOk(results)

RECURSIVE RunFrom(_, _, _)
RunFrom(results, pipeline, i) ==
    IF i > Len(pipeline) THEN StageOk(results)
    ELSE LET r == RunStage(results, pipeline[i])
         IN IF r.ok THEN RunFrom(r.results, pipeline, i + 1) ELSE StageRaised

\* aggregate starts from deep copies of all documents.
AggregateResult(pipeline) ==
    RunFrom([i \in DOMAIN DocIds |-> Deepcopy(documents[DocIds[i]])], pipeline, 1)

Aggregate(pipeline) ==
    LET r == AggregateResult(pipeline)
    IN /\ last' = IF r.ok
                  THEN Call("aggregate", pipeline, <<>>, "none", 0, 0, r.results)
                  ELSE Call("aggregate", pipeline, <<>>, "TypeError", 0, 0, Null)
       /\ UNCHANGED <<documents, indexes, unique_indexes, nextId, callerList>>

Stage(name, config) == [name |-> name, config |-> config]

\* ------------------------------------------------------------- ListCursor
\* ListCursor.__init__
ListCursor(data) == [data |-> data, skip_count |-> 0, limit_count |-> Null]

\* seq[start:end] as Python reads it: a negative bound counts from the
\* end, a bound past an end is clipped, end = None is the end of the list.
PySlice(seq, start, end) ==
    LET clip(i) == IF i < 0 THEN Max2(Len(seq) + i, 0) ELSE Min2(i, Len(seq))
        from == clip(start)
        to == IF end = Null THEN Len(seq) ELSE clip(end.i)
    IN SubSeq(seq, from + 1, to)

\* ListCursor.__iter__: self._data[start:end], start = self._skip_count and
\* end = start + self._limit_count, or None without a limit.
CursorItems_LimitIsEnd(c) ==
    PySlice(c.data, c.skip_count,
            IF c.limit_count = Null THEN Null ELSE IntV(c.limit_count.i))
CursorItems(c) ==
    PySlice(c.data, c.skip_count,
            IF c.limit_count = Null THEN Null
            ELSE IntV(c.skip_count + c.limit_count.i))

\* find of the collection_operator collection: ListCursor(results).  The
\* caller keeps the filter it passed and, later, its skip and limit (-1
\* until it has called them).
FindCursor(filter_dict) ==
    /\ Find(filter_dict)
    /\ cursor' = ListCursor(FindResults(filter_dict))
    /\ driver' = [filter |-> filter_dict, skip |-> -1, limit |-> -1, iterations |-> 0]
    /\ UNCHANGED <<instance, database_type, adapters, colls, threads>>

Skip(n) ==
    /\ cursor # Null
    /\ cursor' = [cursor EXCEPT !.skip_count = n]
    /\ driver' = [driver EXCEPT !.skip = n]
    /\ last' = Call("skip", n, <<>>, "none", 0, 0, Null)
    /\ UNCHANGED <<documents, indexes, unique_indexes, nextId, callerList>>
    /\ UNCHANGED <<instance, database_type, adapters, colls, threads>>

Limit(n) ==
    /\ cursor # Null
    /\ cursor' = [cursor EXCEPT !.limit_count = IntV(n)]
    /\ driver' = [driver EXCEPT !.limit = n]
    /\ last' = Call("limit", n, <<>>, "none", 0, 0, Null)
    /\ UNCHANGED <<documents, indexes, unique_indexes, nextId, callerList>>
    /\ UNCHANGED <<instance, database_type, adapters, colls, threads>>

\* list(cursor): the generator runs to its end; the cursor object is left
\* as it was.
Iterate ==
    /\ cursor # Null
    /\ last' = Call("iter", driver.filter, <<>>, "none", 0, 0, CursorItems(cursor))
    /\ driver' = [driver EXCEPT !.iterations = @ + 1]
    /\ UNCHANGED <<documents, indexes, unique_indexes, nextId, callerList>>
    /\ UNCHANGED env

\* ---------------------------------------- MemoryCollection held by an adapter
\* The collections of an adapter are objects of `colls`; a handle is the
\* position of the object.  Their documents hold strings only (every value
\* is hashable), and document ids come from the shared uuid counter.
NewCollection(name) ==
    [name |-> name, documents |-> <<>>, indexes |-> <<>>, unique_indexes |-> {}]

\* create_index on a collection object
CollCreateIndex(c, field, unique) ==
    LET pos == {i \in DOMAIN c.indexes : c.indexes[i].field = field}
        idx0 == IF pos = {} THEN Append(c.indexes, [field |-> field, vals |-> {}])
                ELSE c.indexes
        at == CHOOSE i \in DOMAIN idx0 : idx0[i].field = field
        added == {c.documents[id][field] :
                     id \in {x \in DOMAIN c.documents : field \in DOMAIN c.documents[x]}}
    IN [c EXCEPT !.indexes = [idx0 EXCEPT ![at].vals = @ \cup added],
                 !.unique_indexes = IF unique THEN @ \cup {field} ELSE @]

\* insert_one on a collection object: the unique-constraint loop, then the
\* store and the index update.
CollCollides(c, doc_copy) ==
    \E field \in c.unique_indexes :
        /\ field \in DOMAIN doc_copy
        /\ HeldByOther(c.documents, 0, field, doc_copy[field], <<>>)

CollStore(c, doc_copy, doc_id) ==
    [c EXCEPT !.documents = [id \in DOMAIN c.documents \cup {doc_id} |->
                                IF id = doc_id THEN doc_copy ELSE c.documents[id]],
              !.indexes = IndexesAfterInsert(c.indexes, doc_copy)]

\* find on a collection object, in insertion order
CollFind(c, filter_dict) ==
    LET hit(id) == MatchesIn(c.documents[id], OrEmpty(filter_dict), <<>>)
        ids == SelectSeq(SortedIds(DOMAIN c.documents), hit)
    IN [i \in DOMAIN ids |-> c.documents[ids[i]]]

\* clear
CollClear_KeepsIndexes(c) == [c EXCEPT !.documents = <<>>]
CollClear(c) ==
    [c EXCEPT !.documents = <<>>, !.indexes = <<>>, !.unique_indexes = {}]

\* ------------------------------------------------------------------ adapters
\* An adapter object.  connected is MemoryAdapter._connected, collections is
\* MemoryAdapter._collections (name -> handle), client is "MongoDBAdapter
\* .client is not None"; closed records that disconnect has run on it.
MemoryAdapter ==
    [kind |-> "memory", connected |-> FALSE, client |-> FALSE,
     collections |-> EmptyDict, closed |-> FALSE]
MongoDBAdapter ==
    [kind |-> "mongodb", connected |-> FALSE, client |-> FALSE,
     collections |-> EmptyDict, closed |-> FALSE]

\* The adapter holds a live connection.
IsConnected(a) == a.connected \/ a.client

World == [adapters |-> adapters, colls |-> colls]
Result(w, raised, ret) == [w |-> w, raised |-> raised, ret |-> ret]

\* MemoryAdapter.get_collection
GetCollectionIn(w, a, name) ==
    IF ~w.adapters[a].connected THEN Result(w, "ConnectionError", 0)
    ELSE IF name \in DOMAIN w.adapters[a].collections
    THEN Result(w, "none", w.adapters[a].collections[name])
    ELSE LET h == Len(w.colls) + 1
             held == w.adapters[a].collections
             now == [n \in DOMAIN held \cup {name} |-> IF n = name THEN h ELSE held[n]]
         IN Result([adapters |-> [w.adapters EXCEPT ![a].collections = now],
                    colls |-> Append(w.colls, NewCollection(name))],
                   "none", h)

\* MemoryAdapter.create_indexes: the six create_index calls in order.
StandardIndexes ==
    << <<"users", "ci_id", TRUE>>, <<"users", "user_id", TRUE>>,
       <<"users", "name", FALSE>>,
       <<"applications", "ci_id", TRUE>>, <<"applications", "app_id", TRUE>>,
       <<"applications", "name", FALSE>> >>

RECURSIVE CreateIndexesFrom(_, _, _)
CreateIndexesFrom(w, a, i) ==
    IF i > Len(StandardIndexes) THEN w
    ELSE LET e == StandardIndexes[i]
             got == GetCollectionIn(w, a, e[1])
             made == [got.w EXCEPT !.colls[got.ret] = CollCreateIndex(@, e[2], e[3])]
         IN CreateIndexesFrom(made, a, i + 1)

\* What connect can do: the embedded backend always connects; the driver
\* of the networked backend may reject the connection string (no client
\* is built) or fail to reach the server (the client stays assigned).
ConnectOutcomes(kind) ==
    IF kind = "memory" THEN {"ok"} ELSE {"ok", "bad_uri", "no_server"}

\* MemoryAdapter.connect / MongoDBAdapter.connect
ConnectIn(w, a, outcome) ==
    IF w.adapters[a].kind = "memory"
    THEN Result(CreateIndexesFrom([w EXCEPT !.adapters[a].connected = TRUE], a, 1),
                "none", 0)
    ELSE IF outcome = "bad_uri" THEN Result(w, "ConnectionFailure", 0)
    ELSE Result([w EXCEPT !.adapters[a].client = TRUE],
                IF outcome = "ok" THEN "none" ELSE "ConnectionFailure", 0)

\* MemoryAdapter.disconnect / MongoDBAdapter.disconnect
DisconnectIn_KeepsCollections(w, a) ==
    [w EXCEPT !.adapters[a].connected = FALSE,
              !.adapters[a].client = FALSE,
              !.adapters[a].closed = TRUE]
DisconnectIn_LeavesOpen(w, a) == [w EXCEPT !.adapters[a].closed = TRUE]
DisconnectIn(w, a) ==
    [w EXCEPT !.adapters[a].collections = EmptyDict,
              !.adapters[a].connected = FALSE,
              !.adapters[a].client = FALSE,
              !.adapters[a].closed = TRUE]

\* MemoryAdapter.clear_all_collections
ClearAllIn(w, a) ==
    LET held == {w.adapters[a].collections[n] : n \in DOMAIN w.adapters[a].collections}
    IN [w EXCEPT !.colls = [h \in DOMAIN w.colls |->
                               IF h \in held THEN CollClear(w.colls[h]) ELSE w.colls[h]]]

\* ----------------------------------------------------------- DatabaseFactory
\* A call of the factory by thread t runs statement by statement; pc is the
\* statement the thread is at.  instance is _instance (0 for None).  The
\* caller's notes (driver): overlapped - some call began while another was
\* running; completed - an initialize has returned since the start or the
\* last disconnect; created - the instance the latest initialize created;
\* handles - the collections obtained since the last disconnect, by name;
\* held - every collection obtained so far; old - the ids of the documents
\* inserted before the last disconnect; cleared - clear_all_collections
\* has run since the last connect.
Idle == [pc |-> "idle", db_type |-> ""]
FactoryDriver ==
    [overlapped |-> FALSE, completed |-> FALSE, created |-> 0,
     handles |-> EmptyDict, held |-> {}, old |-> {}, cleared |-> FALSE]

AllIdle == \A t \in DOMAIN threads : threads[t].pc = "idle"
Begins(t) ==
    [driver EXCEPT !.overlapped =
        @ \/ \E o \in DOMAIN threads \ {t} : threads[o].pc # "idle"]
Running(op, arg) == Call(op, arg, <<>>, "running", 0, 0, Null)
Returned(op, raised, ret) == Call(op, Null, <<>>, raised, 0, 0, ret)
Forgets ==
    [driver EXCEPT !.handles = EmptyDict, !.old = 1..nextId, !.cleared = FALSE]

\* initialize, line 35: `if cls._instance is not None`
InitializeBegin(t, db_type) ==
    /\ threads[t].pc = "idle"
    /\ Len(adapters) < MaxAdapters
    /\ threads' = [threads EXCEPT ![t] =
          [pc |-> IF instance # 0 THEN "init_disconnect" ELSE "init_create",
           db_type |-> db_type]]
    /\ driver' = Begins(t)
    /\ last' = Running("initialize", StrV(db_type))
    /\ UNCHANGED <<documents, indexes, unique_indexes, nextId, callerList>>
    /\ UNCHANGED <<cursor, instance, database_type, adapters, colls>>

\* line 37: `cls._instance.disconnect()`; the slot is read again
InitializeDisconnect(t) ==
    /\ threads[t].pc = "init_disconnect"
    /\ IF instance = 0
       THEN /\ threads' = [threads EXCEPT ![t] = Idle]
            /\ last' = Returned("initialize", "AttributeError", Null)
            /\ UNCHANGED <<adapters, colls, driver>>
       ELSE /\ adapters' = DisconnectIn(World, instance).adapters
            /\ threads' = [threads EXCEPT ![t].pc = "init_create"]
            /\ driver' = Forgets
            /\ UNCHANGED <<colls, last>>
    /\ UNCHANGED <<documents, indexes, unique_indexes, nextId, callerList>>
    /\ UNCHANGED <<cursor, instance, database_type>>

\* line 39: `cls._instance = cls.create_database(db_type)`
InitializeCreate(t) ==
    /\ threads[t].pc = "init_create"
    /\ adapters' = Append(adapters, IF threads[t].db_type = "memory"
                                    THEN MemoryAdapter ELSE MongoDBAdapter)
    /\ instance' = Len(adapters) + 1
    /\ threads' = [threads EXCEPT ![t].pc = "init_type"]
    /\ driver' = [driver EXCEPT !.created = Len(adapters) + 1]
    /\ UNCHANGED <<documents, indexes, unique_indexes, nextId, callerList, last>>
    /\ UNCHANGED <<cursor, database_type, colls>>

\* line 40: `cls._database_type = db_type`
InitializeType(t) ==
    /\ threads[t].pc = "init_type"
    /\ database_type' = StrV(threads[t].db_type)
    /\ threads' = [threads EXCEPT ![t].pc = "init_connect"]
    /\ UNCHANGED <<documents, indexes, unique_indexes, nextId, callerList, last, driver>>
    /\ UNCHANGED <<cursor, instance, adapters, colls>>

\* line 41: `cls._instance.connect(...)`; the slot is read again
InitializeConnect(t) ==
    /\ threads[t].pc = "init_connect"
    /\ threads' = [threads EXCEPT ![t] = Idle]
    /\ IF instance = 0
       THEN /\ last' = Returned("initialize", "AttributeError", Null)
            /\ UNCHANGED <<adapters, colls, driver>>
       ELSE \E outcome \in ConnectOutcomes(adapters[instance].kind) :
               LET done == ConnectIn(World, instance, outcome)
               IN /\ adapters' = done.w.adapters
                  /\ colls' = done.w.colls
                  /\ last' = Returned("initialize", done.raised, Null)
                  /\ driver' = IF done.raised = "none"
                               THEN [driver EXCEPT !.completed = TRUE] ELSE driver
    /\ UNCHANGED <<documents, indexes, unique_indexes, nextId, callerList>>
    /\ UNCHANGED <<cursor, instance, database_type>>

\* disconnect, line 54: `if cls._instance is not None`
DisconnectBegin(t) ==
    /\ threads[t].pc = "idle"
    /\ threads' = [threads EXCEPT ![t].pc =
                      IF instance # 0 THEN "disc_disconnect" ELSE "idle"]
    /\ driver' = Begins(t)
    /\ last' = IF instance # 0 THEN Running("disconnect", Null)
               ELSE Returned("disconnect", "none", Null)
    /\ UNCHANGED <<documents, indexes, unique_indexes, nextId, callerList>>
    /\ UNCHANGED <<cursor, instance, database_type, adapters, colls>>

\* line 55: `cls._instance.disconnect()`; the slot is read again
DisconnectInstance(t) ==
    /\ threads[t].pc = "disc_disconnect"
    /\ IF instance = 0
       THEN /\ threads' = [threads EXCEPT ![t] = Idle]
            /\ last' = Returned("disconnect", "AttributeError", Null)
            /\ UNCHANGED <<adapters, driver>>
       ELSE /\ adapters' = DisconnectIn(World, instance).adapters
            /\ threads' = [threads EXCEPT ![t].pc = "disc_clear"]
            /\ driver' = Forgets
            /\ UNCHANGED last
    /\ UNCHANGED <<documents, indexes, unique_indexes, nextId, callerList>>
    /\ UNCHANGED <<cursor, instance, database_type, colls>>

\* line 56: `cls._instance = None`
DisconnectClear(t) ==
    /\ threads[t].pc = "disc_clear"
    /\ instance' = 0
    /\ threads' = [threads EXCEPT ![t].pc = "disc_type"]
    /\ UNCHANGED <<documents, indexes, unique_indexes, nextId, callerList, last, driver>>
    /\ UNCHANGED <<cursor, database_type, adapters, colls>>

\* line 57: `cls._database_type = None`, and the call returns
DisconnectType(t) ==
    /\ threads[t].pc = "disc_type"
    /\ database_type' = Null
    /\ threads' = [threads EXCEPT ![t] = Idle]
    /\ driver' = [driver EXCEPT !.completed = FALSE]
    /\ last' = Returned("disconnect", "none", Null)
    /\ UNCHANGED <<documents, indexes, unique_indexes, nextId, callerList>>
    /\ UNCHANGED <<cursor, instance, adapters, colls>>

\* get_database, line 47: `if cls._instance is None: raise RuntimeError`
GetDatabaseBegin(t) ==
    /\ threads[t].pc = "idle"
    /\ threads' = [threads EXCEPT ![t].pc = IF instance = 0 THEN "idle" ELSE "get_return"]
    /\ driver' = Begins(t)
    /\ last' = IF instance = 0 THEN Returned("get_database", "NotInitialized", 0)
               ELSE Running("get_database", Null)
    /\ UNCHANGED <<documents, indexes, unique_indexes, nextId, callerList>>
    /\ UNCHANGED <<cursor, instance, database_type, adapters, colls>>

\* line 49: `return cls._instance`; the slot is read again
GetDatabaseReturn(t) ==
    /\ threads[t].pc = "get_return"
    /\ threads' = [threads EXCEPT ![t] = Idle]
    /\ last' = Returned("get_database", "none", instance)
    /\ UNCHANGED <<documents, indexes, unique_indexes, nextId, callerList, driver>>
    /\ UNCHANGED <<cursor, instance, database_type, adapters, colls>>

\* is_initialized: `return cls._instance is not None`
IsInitialized(t) ==
    /\ threads[t].pc = "idle"
    /\ driver' = Begins(t)
    /\ last' = Returned("is_initialized", "none", IF instance # 0 THEN 1 ELSE 0)
    /\ UNCHANGED <<documents, indexes, unique_indexes, nextId, callerList>>
    /\ UNCHANGED env

\* ------------------------------------------------- insert_one by threads
\* insert_one run by thread t in three steps, with nothing held between
\* them: the copy and the new id, the unique-constraint scan, the store
\* with the index update.
InsertBegin(t, document) ==
    /\ threads[t].pc = "idle"
    /\ nextId < MaxIds
    /\ nextId' = nextId + 1
    /\ threads' = [threads EXCEPT ![t] =
          [pc |-> "scan", db_type |-> "", document |-> document,
           doc_id |-> nextId + 1, doc_copy |-> NewDocument(document, nextId + 1)]]
    /\ driver' = Begins(t)
    /\ last' = Running("insert_one", document)
    /\ UNCHANGED <<documents, indexes, unique_indexes, callerList, env_but_threads>>

\* lines 44-49: raise ValueError when a stored document holds the value
InsertScan(t) ==
    /\ threads[t].pc = "scan"
    /\ IF InsertCollides(threads[t].doc_copy)
       THEN /\ threads' = [threads EXCEPT ![t] = Idle]
            /\ last' = Call("insert_one", threads[t].document, <<>>,
                            "DuplicateKey", 0, 0, Null)
       ELSE /\ threads' = [threads EXCEPT ![t].pc = "store"]
            /\ UNCHANGED last
    /\ UNCHANGED <<documents, indexes, unique_indexes, nextId, callerList, driver>>
    /\ UNCHANGED env_but_threads

\* lines 51-58: store the copy, update the indexes, return the id
InsertStore(t) ==
    LET doc_id == threads[t].doc_id
        doc_copy == threads[t].doc_copy
    IN /\ threads[t].pc = "store"
       /\ documents' = [id \in DOMAIN documents \cup {doc_id} |->
                           IF id = doc_id THEN doc_copy ELSE documents[id]]
       /\ indexes' = IndexesAfterInsert(indexes, doc_copy)
       /\ threads' = [threads EXCEPT ![t] = Idle]
       /\ last' = Call("insert_one", threads[t].document, <<>>, "none", 0, 0, Uuid(doc_id))
       /\ UNCHANGED <<unique_indexes, nextId, callerList, driver>>
       /\ UNCHANGED env_but_threads

\* ------------------------------------------- the caller of the adapter
\* The caller works on the adapter that get_database returns, between the
\* factory's calls, and on the collections it obtained from it.
\* adapter.connect(...)
AdapterConnect ==
    /\ AllIdle /\ instance # 0
    /\ LET done == ConnectIn(World, instance, "ok")
       IN /\ adapters' = done.w.adapters
          /\ colls' = done.w.colls
          /\ last' = Returned("connect", done.raised, Null)
    /\ driver' = [driver EXCEPT !.cleared = FALSE]
    /\ UNCHANGED <<documents, indexes, unique_indexes, nextId, callerList>>
    /\ UNCHANGED <<cursor, instance, database_type, threads>>

\* adapter.disconnect()
AdapterDisconnect ==
    /\ AllIdle /\ instance # 0
    /\ adapters' = DisconnectIn(World, instance).adapters
    /\ last' = Returned("adapter_disconnect", "none", Null)
    /\ driver' = Forgets
    /\ UNCHANGED <<documents, indexes, unique_indexes, nextId, callerList>>
    /\ UNCHANGED <<cursor, instance, database_type, colls, threads>>

\* adapter.get_collection(name)
GetCollection(name) ==
    /\ AllIdle /\ instance # 0
    /\ LET got == GetCollectionIn(World, instance, name)
           seen == IF name \in DOMAIN driver.handles THEN driver.handles[name] ELSE {}
       IN /\ adapters' = got.w.adapters
          /\ colls' = got.w.colls
          /\ last' = Call("get_collection", StrV(name), 0, got.raised, 0, 0, got.ret)
          /\ driver' = IF got.raised # "none" THEN driver
                       ELSE [driver EXCEPT
                               !.handles = [n \in DOMAIN @ \cup {name} |->
                                              IF n = name THEN seen \cup {got.ret} ELSE @[n]],
                               !.held = @ \cup {got.ret}]
    /\ UNCHANGED <<documents, indexes, unique_indexes, nextId, callerList>>
    /\ UNCHANGED <<cursor, instance, database_type, threads>>

\* collection.insert_one(document) on the collection object h
InsertVia(h, document) ==
    LET doc_id == nextId + 1
        doc_copy == NewDocument(document, doc_id)
    IN /\ AllIdle
       /\ nextId < MaxIds \/ CollCollides(colls[h], doc_copy)
       /\ IF CollCollides(colls[h], doc_copy)
          THEN /\ last' = Call("insert_one", document, h, "DuplicateKey", 0, 0, Null)
               /\ UNCHANGED <<colls, nextId>>
          ELSE /\ colls' = [colls EXCEPT ![h] = CollStore(@, doc_copy, doc_id)]
               /\ nextId' = doc_id
               /\ last' = Call("insert_one", document, h, "none", 0, 0, Uuid(doc_id))
       /\ UNCHANGED <<documents, indexes, unique_indexes, callerList, driver>>
       /\ UNCHANGED <<cursor, instance, database_type, adapters, threads>>

\* collection.find() on the collection object h
FindVia(h) ==
    /\ AllIdle
    /\ last' = Call("find", Null, h, "none", 0, 0, CollFind(colls[h], Null))
    /\ UNCHANGED <<documents, indexes, unique_indexes, nextId, callerList, driver>>
    /\ UNCHANGED env

\* adapter.clear_all_collections()
ClearAllCollections ==
    /\ AllIdle /\ instance # 0
    /\ colls' = ClearAllIn(World, instance).colls
    /\ last' = Returned("clear_all_collections", "none", Null)
    /\ driver' = [driver EXCEPT !.cleared = TRUE]
    /\ UNCHANGED <<documents, indexes, unique_indexes, nextId, callerList>>
    /\ UNCHANGED <<cursor, instance, database_type, adapters, threads>>

\* ------------------------------------------------------------- the caller
\* The caller appends to the list object it holds: the object it passed
\* inside an insert_one document or as a value of an update_dict.
CallerMutate(value) ==
    /\ callerList' = Append(callerList, value)
    /\ last' = Call("caller_mutate", EmptyDict, <<>>, "none", 0, 0, Null)
    /\ UNCHANGED <<documents, indexes, unique_indexes, nextId>>

\* The caller appends to a list of the document find_one returned.
MutateReturned(field, value) ==
    /\ last.op = "find_one"
    /\ last.ret # Null
    /\ field \in DOMAIN last.ret
    /\ last.ret[field].t = "list"
    /\ last' = [last EXCEPT !.op = "mutate_returned",
                            !.ret[field] = ListV(Append(@.a, value))]
    /\ UNCHANGED <<documents, indexes, unique_indexes, nextId, callerList>>

\* ------------------------------------------------------------ set-up, Spec
\* The caller's loop `for _ in range(k): update_one(filter, {"$inc": ...})`
\* of the usage-count scenario is the variable driver; only SpecInc runs it.
NoDriver == [filter |-> EmptyDict, delta |-> 0, calls |-> 0, orig |-> <<>>]

\* No factory initialized, no cursor held, no call in progress.
EnvIdle ==
    /\ cursor = Null
    /\ instance = 0
    /\ database_type = Null
    /\ adapters = <<>>
    /\ colls = <<>>
    /\ threads = <<>>

\* MemoryCollection.__init__
Init ==
    /\ documents = [id \in {} |-> EmptyDict]
    /\ indexes = <<>>
    /\ unique_indexes = {}
    /\ nextId = 0
    /\ callerList = <<>>
    /\ last = NoCall
    /\ driver = NoDriver
    /\ EnvIdle

\* The operator form {operation: {field: value}} of an update_dict.
Op1(operation, field, value) ==
    <<[key |-> operation, val |-> DictV(Dict1(field, value))]>>
\* The bare form {field: value}.
Bare1(field, value) == <<[key |-> field, val |-> value]>>

\* Python ints are unbounded; a specification that lets "$inc" run freely
\* stops at MaxInt.
IntsBounded(docs) ==
    \A id \in DOMAIN docs : \A f \in DOMAIN docs[id] :
        docs[id][f].t = "int" => (docs[id][f].i <= MaxInt /\ docs[id][f].i >= -MaxInt)

\* Spec: one collection with a unique index on k, written by every
\* mutating call.
Scalars == {Null, IntV(1)}
InsertDocs == {EmptyDict} \cup {Dict1("k", v) : v \in Scalars}
Filters == {EmptyDict, Dict1("k", IntV(1))}
Updates ==
    {Op1("$set", "k", Null), Op1("$unset", "k", Null), Op1("$inc", "k", IntV(1)),
     Bare1("k", IntV(1))}

Next ==
    \/ \E document \in InsertDocs : InsertOne(document) /\ UNCHANGED <<driver, env>>
    \/ CreateIndex("k", TRUE) /\ UNCHANGED <<driver, env>>
    \/ \E filter_dict \in Filters, update_dict \in Updates :
          UpdateOne(filter_dict, update_dict) /\ IntsBounded(documents')
             /\ UNCHANGED <<driver, env>>
    \/ \E filter_dict \in Filters, update_dict \in Updates :
          UpdateMany(filter_dict, update_dict) /\ IntsBounded(documents')
             /\ UNCHANGED <<driver, env>>
    \/ \E filter_dict \in Filters : DeleteOne(filter_dict) /\ UNCHANGED <<driver, env>>
    \/ \E filter_dict \in Filters : DeleteMany(filter_dict) /\ UNCHANGED <<driver, env>>

Spec == Init /\ [][Next]_vars

\* SpecId: calls that name the identifier field.  A caller can name only
\* identifiers insert_one has returned: uuid4 values cannot be guessed.
IdDocs == {Dict1("k", IntV(1)), Dict1("_id", Null)}
IdFilters == {Dict1("_id", Uuid(n)) : n \in 1..nextId}
IdUpdates ==
    {Op1("$set", "_id", Uuid(1)), Op1("$unset", "_id", Null),
     Op1("$inc", "_id", IntV(1)), Bare1("_id", Null)}

NextId ==
    \/ \E document \in IdDocs : InsertOne(document) /\ UNCHANGED <<driver, env>>
    \/ \E filter_dict \in IdFilters, update_dict \in IdUpdates :
          UpdateOne(filter_dict, update_dict) /\ IntsBounded(documents')
             /\ UNCHANGED <<driver, env>>
    \/ \E update_dict \in IdUpdates :
          UpdateMany(EmptyDict, update_dict) /\ IntsBounded(documents')
             /\ UNCHANGED <<driver, env>>
    \/ \E filter_dict \in IdFilters : DeleteOne(filter_dict) /\ UNCHANGED <<driver, env>>
    \/ \E filter_dict \in IdFilters : FindOne(filter_dict) /\ UNCHANGED <<driver, env>>

SpecId == Init /\ [][NextId]_vars

\* SpecAlias: the caller passes its list object in and mutates it, and
\* mutates what find_one returned.
AliasDocs == {EmptyDict, Dict1("tags", Ref)}
AliasUpdates ==
    {Op1("$set", "tags", Ref), Bare1("tags", Ref), Op1("$addToSet", "tags", IntV(2)),
     Op1("$pull", "tags", IntV(1))}

NextAlias ==
    \/ \E document \in AliasDocs : InsertOne(document) /\ UNCHANGED <<driver, env>>
    \/ \E update_dict \in AliasUpdates :
          UpdateOne(EmptyDict, update_dict) /\ UNCHANGED <<driver, env>>
    \/ \E update_dict \in AliasUpdates :
          UpdateMany(EmptyDict, update_dict) /\ UNCHANGED <<driver, env>>
    \/ FindOne(EmptyDict) /\ UNCHANGED <<driver, env>>
    \/ DeleteOne(EmptyDict) /\ UNCHANGED <<driver, env>>
    \/ Len(callerList) < MaxList /\ CallerMutate(IntV(1)) /\ UNCHANGED <<driver, env>>
    \/ MutateReturned("tags", IntV(1)) /\ Len(last.ret["tags"].a) <= MaxList
          /\ UNCHANGED <<driver, env>>

SpecAlias == Init /\ [][NextAlias]_vars

\* SpecInc: the usage-count scenario.  The collection holds one or two
\* inserted documents; the caller repeats one update_one with
\* {"$inc": {"n": delta}}.
IncDeltas == {1, 5, -1}
IncFirstDocs ==
    {[f \in {"_id"} \cup S |-> IF f = "_id" THEN Uuid(1) ELSE IntV(1)] : S \in SUBSET {"k"}}
    \cup {[f \in {"_id", "n"} \cup S |->
              IF f = "_id" THEN Uuid(1) ELSE IF f = "n" THEN IntV(v) ELSE IntV(1)] :
            S \in SUBSET {"k"}, v \in {0, 1, -3}}
IncSecondDoc == [_id |-> Uuid(2), k |-> IntV(1)]

InitInc ==
    /\ \E d1 \in IncFirstDocs :
          \/ documents = <<d1>> /\ nextId = 1
          \/ documents = <<d1, IncSecondDoc>> /\ nextId = 2
    /\ indexes = <<>>
    /\ unique_indexes = {}
    /\ callerList = <<>>
    /\ last = NoCall
    /\ \E filter_dict \in Filters, delta \in IncDeltas :
          driver = [filter |-> filter_dict, delta |-> delta, calls |-> 0,
                    orig |-> documents]
    /\ EnvIdle

IncStep ==
    /\ driver.calls < MaxCalls
    /\ UpdateOne(driver.filter, Op1("$inc", "n", IntV(driver.delta)))
    /\ driver' = [driver EXCEPT !.calls = @ + 1]
    /\ UNCHANGED env

NextInc == IncStep

SpecInc == InitInc /\ [][NextInc]_vars

\* SpecRead: every read over a collection grown by inserts, with filters that name one or two fields, None values and
\* the absent filter.
ReadDocs ==
    {EmptyDict, Dict1("k", Null), Dict1("k", IntV(1)),
     [k |-> IntV(1), n |-> IntV(1)], [k |-> IntV(1), n |-> Null]}
ReadFilters ==
    {EmptyDict, Dict1("k", Null), Dict1("k", IntV(1)), Dict1("n", Null),
     [k |-> IntV(1), n |-> IntV(1)]}

NextRead ==
    \/ \E document \in ReadDocs : InsertOne(document) /\ UNCHANGED <<driver, env>>
    \/ \E filter_dict \in ReadFilters : FindOne(filter_dict) /\ UNCHANGED <<driver, env>>
    \/ \E filter_dict \in ReadFilters \cup {Null} : Find(filter_dict) /\ UNCHANGED <<driver, env>>
    \/ \E filter_dict \in ReadFilters \cup {Null} :
          CountDocuments(filter_dict) /\ UNCHANGED <<driver, env>>
    \/ \E filter_dict \in ReadFilters :
          Aggregate(<<Stage("$match", filter_dict)>>) /\ UNCHANGED <<driver, env>>

SpecRead == Init /\ [][NextRead]_vars

\* SpecPair: the caller runs a program of two update_one calls with the
\* same filter on a collection of one or two inserted documents: "$inc" by
\* d then by -d, "$addToSet" of v twice, "$pull" of v then "$addToSet" of
\* v.  An exception of the first call ends the program.
PairTags ==
    {ListV(<<>>), ListV(<<IntV(1)>>), ListV(<<IntV(2), IntV(1)>>),
     ListV(<<IntV(1), IntV(2), IntV(1)>>), ListV(<<IntV(1), IntV(1)>>), IntV(1)}
PairNs == {IntV(0), IntV(2)}
PairFirstDocs ==
    {[f \in {"_id"} \cup S |->
         IF f = "_id" THEN Uuid(1) ELSE IF f = "tags" THEN tags ELSE n] :
       S \in SUBSET {"tags", "n"}, tags \in PairTags, n \in PairNs}
PairPrograms ==
    {<<Op1("$inc", "n", IntV(d)), Op1("$inc", "n", IntV(-d))>> : d \in {1, -2}}
    \cup {<<Op1("$addToSet", "tags", v), Op1("$addToSet", "tags", v)>> :
             v \in {IntV(1), IntV(3)}}
    \cup {<<Op1("$pull", "tags", v), Op1("$addToSet", "tags", v)>> :
             v \in {IntV(1), IntV(3)}}

InitPair ==
    /\ \E d1 \in PairFirstDocs :
          \/ documents = <<d1>> /\ nextId = 1
          \/ documents = <<d1, IncSecondDoc>> /\ nextId = 2
    /\ indexes = <<>>
    /\ unique_indexes = {}
    /\ callerList = <<>>
    /\ last = NoCall
    /\ \E filter_dict \in Filters, prog \in PairPrograms :
          driver = [filter |-> filter_dict, prog |-> prog, calls |-> 0,
                    orig |-> documents, mid |-> documents]
    /\ EnvIdle

PairStep ==
    /\ driver.calls < Len(driver.prog)
    /\ last.raised = "none"
    /\ UpdateOne(driver.filter, driver.prog[driver.calls + 1])
    /\ driver' = [driver EXCEPT !.calls = @ + 1, !.mid = documents]
    /\ UNCHANGED env

NextPair == PairStep

SpecPair == InitPair /\ [][NextPair]_vars

\* SpecUpd: every shape of update_dict: bare fields, one operator, an
\* operator next to a bare field (in both orders) and two operators.
UpdDocs == {EmptyDict, Dict1("a", IntV(0)), [a |-> IntV(0), b |-> IntV(0)]}
SetA == [key |-> "$set", val |-> DictV(Dict1("a", IntV(1)))]
UpdSpecs ==
    {Bare1("a", IntV(1)),
     <<[key |-> "a", val |-> Null], [key |-> "b", val |-> IntV(1)]>>,
     <<SetA>>, Op1("$unset", "a", Null), Op1("$inc", "b", IntV(1)),
     <<SetA, [key |-> "b", val |-> IntV(1)]>>,
     <<[key |-> "b", val |-> IntV(1)], SetA>>,
     <<SetA, [key |-> "$unset", val |-> DictV(Dict1("b", Null))]>>}

NextUpd ==
    \/ \E document \in UpdDocs : InsertOne(document) /\ UNCHANGED <<driver, env>>
    \/ \E update_dict \in UpdSpecs :
          UpdateOne(EmptyDict, update_dict) /\ IntsBounded(documents')
             /\ UNCHANGED <<driver, env>>
    \/ \E filter_dict \in {EmptyDict, Dict1("a", IntV(0))}, update_dict \in UpdSpecs :
          UpdateMany(filter_dict, update_dict) /\ IntsBounded(documents')
             /\ UNCHANGED <<driver, env>>

SpecUpd == Init /\ [][NextUpd]_vars

\* SpecIdx: indexes created before and after documents exist, over a
\* field that holds an int in some documents and a list in others.
IdxDocs == {EmptyDict, Dict1("tags", IntV(1)), Dict1("tags", ListV(<<IntV(1)>>))}

NextIdx ==
    \/ \E document \in IdxDocs : InsertOne(document) /\ UNCHANGED <<driver, env>>
    \/ \E unique \in BOOLEAN : CreateIndex("tags", unique) /\ UNCHANGED <<driver, env>>
    \/ DeleteOne(EmptyDict) /\ UNCHANGED <<driver, env>>

SpecIdx == Init /\ [][NextIdx]_vars

\* SpecAgg: aggregate with a "$group", "$sort" or "$project" stage over a
\* collection of up to MaxAggDocs inserted documents whose field f is
\* absent, None or an int and whose field g is absent or an int.
AggDocs ==
    {[x \in S |-> IF x = "f" THEN f ELSE IntV(1)] :
        S \in SUBSET {"f", "g"}, f \in {Null, IntV(1), IntV(2)}}
AggCollections ==
    UNION {[1..n -> AggDocs] : n \in 0..MaxAggDocs}
GroupPipelines ==
    {<<Stage("$group", [id |-> FieldRef("f"),
                        accs |-> Dict1("count", DictV(Dict1("$sum", IntV(1))))])>>}
SortPipelines ==
    {<<Stage("$sort", <<[field |-> "f", direction |-> 1]>>)>>,
     <<Stage("$sort", <<[field |-> "f", direction |-> -1]>>)>>,
     <<Stage("$sort", <<[field |-> "f", direction |-> 1], [field |-> "g", direction |-> -1]>>)>>}
ProjectPipelines ==
    {<<Stage("$project", config)>> :
        config \in {Dict1("f", 1), [f |-> 1, _id |-> 0], [f |-> 1, g |-> 1],
                    Dict1("f", 0), [f |-> 0, g |-> 0], Dict1("_id", 0),
                    [f |-> 0, _id |-> 0]}}

InitAgg ==
    /\ \E docs \in AggCollections :
          /\ documents = [id \in DOMAIN docs |-> NewDocument(docs[id], id)]
          /\ nextId = Len(docs)
    /\ indexes = <<>>
    /\ unique_indexes = {}
    /\ callerList = <<>>
    /\ last = NoCall
    /\ driver = NoDriver
    /\ EnvIdle

NextAgg ==
    \/ \E pipeline \in GroupPipelines : Aggregate(pipeline) /\ UNCHANGED <<driver, env>>
    \/ \E pipeline \in SortPipelines : Aggregate(pipeline) /\ UNCHANGED <<driver, env>>
    \/ \E pipeline \in ProjectPipelines : Aggregate(pipeline) /\ UNCHANGED <<driver, env>>

SpecAgg == InitAgg /\ [][NextAgg]_vars

\* SpecCursor: find on a collection of up to MaxAggDocs inserted
\* documents, then skip, limit and iteration of the cursor in any order
\* and any number of times.
CursorDocs == {EmptyDict, Dict1("k", IntV(1))}
CursorCollections == UNION {[1..n -> CursorDocs] : n \in 0..MaxAggDocs}

InitCursor ==
    /\ \E docs \in CursorCollections :
          /\ documents = [id \in DOMAIN docs |-> NewDocument(docs[id], id)]
          /\ nextId = Len(docs)
    /\ indexes = <<>>
    /\ unique_indexes = {}
    /\ callerList = <<>>
    /\ last = NoCall
    /\ driver = NoDriver
    /\ EnvIdle

NextCursor ==
    \/ \E filter_dict \in {Null, Dict1("k", IntV(1))} : cursor = Null /\ FindCursor(filter_dict)
    \/ \E n \in 0..MaxSkip : Skip(n)
    \/ \E n \in 0..MaxSkip : Limit(n)
    \/ cursor # Null /\ driver.iterations < 2 /\ Iterate

SpecCursor == InitCursor /\ [][NextCursor]_vars

\* SpecFactory: one thread calling initialize, disconnect, get_database
\* and is_initialized of the factory, one call after another, with either
\* backend; the networked backend's connect may fail.
DbTypes == {"memory", "mongodb"}

InitFactory(n) ==
    /\ documents = <<>>
    /\ indexes = <<>>
    /\ unique_indexes = {}
    /\ nextId = 0
    /\ callerList = <<>>
    /\ last = NoCall
    /\ driver = FactoryDriver
    /\ cursor = Null
    /\ instance = 0
    /\ database_type = Null
    /\ adapters = <<>>
    /\ colls = <<>>
    /\ threads = [t \in 1..n |-> Idle]

NextFactory ==
    \/ \E t \in DOMAIN threads, db_type \in DbTypes : InitializeBegin(t, db_type)
    \/ \E t \in DOMAIN threads : InitializeDisconnect(t)
    \/ \E t \in DOMAIN threads : InitializeCreate(t)
    \/ \E t \in DOMAIN threads : InitializeType(t)
    \/ \E t \in DOMAIN threads : InitializeConnect(t)
    \/ \E t \in DOMAIN threads : DisconnectBegin(t)
    \/ \E t \in DOMAIN threads : DisconnectInstance(t)
    \/ \E t \in DOMAIN threads : DisconnectClear(t)
    \/ \E t \in DOMAIN threads : DisconnectType(t)
    \/ \E t \in DOMAIN threads : GetDatabaseBegin(t)
    \/ \E t \in DOMAIN threads : GetDatabaseReturn(t)
    \/ \E t \in DOMAIN threads : IsInitialized(t)

SpecFactory == InitFactory(1) /\ [][NextFactory]_vars

\* SpecFactoryThreads: the same calls from two threads with nothing
\* serializing them.
SpecFactoryThreads == InitFactory(2) /\ [][NextFactory]_vars

\* SpecAdapter: the embedded backend behind the factory: initialize and
\* disconnect of the factory, connect and disconnect of the adapter,
\* get_collection, and inserts and reads through the collections obtained.
CollectionNames == {"users", "applications"}
AdapterDocs == {Dict1("ci_id", StrV("CI-1")), Dict1("app_id", StrV("A-1"))}

NextAdapter ==
    \/ Len(colls) + 2 <= MaxColls /\ InitializeBegin(1, "memory")
    \/ InitializeDisconnect(1)
    \/ InitializeCreate(1)
    \/ InitializeType(1)
    \/ InitializeConnect(1)
    \/ DisconnectBegin(1)
    \/ DisconnectInstance(1)
    \/ DisconnectClear(1)
    \/ DisconnectType(1)
    \/ Len(colls) + 2 <= MaxColls /\ AdapterConnect
    \/ AdapterDisconnect
    \/ \E name \in CollectionNames :
          /\ instance # 0
          /\ name \in DOMAIN adapters[instance].collections \/ Len(colls) < MaxColls
          /\ GetCollection(name)
    \/ \E h \in driver.held, document \in AdapterDocs : InsertVia(h, document)
    \/ \E h \in driver.held : FindVia(h)

SpecAdapter == InitFactory(1) /\ [][NextAdapter]_vars

\* SpecClear: the same with clear_all_collections.
NextClear ==
    \/ NextAdapter
    \/ ClearAllCollections

SpecClear == InitFactory(1) /\ [][NextClear]_vars

\* SpecRace: two threads insert into one collection on which
\* create_index("k", unique=True) has run, with nothing serializing them.
RaceDocs == {EmptyDict, Dict1("k", IntV(1)), Dict1("k", Null)}

InitRace ==
    /\ documents = <<>>
    /\ indexes = <<[field |-> "k", vals |-> {}]>>
    /\ unique_indexes = {"k"}
    /\ nextId = 0
    /\ callerList = <<>>
    /\ last = NoCall
    /\ driver = FactoryDriver
    /\ cursor = Null
    /\ instance = 0
    /\ database_type = Null
    /\ adapters = <<>>
    /\ colls = <<>>
    /\ threads = [t \in 1..2 |-> Idle]

NextRace ==
    \/ \E t \in DOMAIN threads, document \in RaceDocs : InsertBegin(t, document)
    \/ \E t \in DOMAIN threads : InsertScan(t)
    \/ \E t \in DOMAIN threads : InsertStore(t)

SpecRace == InitRace /\ [][NextRace]_vars

\* ================================================================== claims
\* Two stored documents hold equal values for `field`.
HoldEqual(docs, field) ==
    \E a \in DOMAIN docs, b \in DOMAIN docs :
        /\ a # b
        /\ field \in DOMAIN docs[a]
        /\ field \in DOMAIN docs[b]
        /\ docs[a][field] = docs[b][field]

\* Some stored document other than `skip` holds `value` for `field`.
AnotherHolds(docs, skip, field, value) ==
    \E id \in DOMAIN docs \ {skip} :
        field \in DOMAIN docs[id] /\ docs[id][field] = value

\* C1: once a unique index on k exists and no two stored documents hold
\* equal values for k, no call leaves two documents holding equal values
\* for k.
C1_UniquePreserved ==
    [][("k" \in unique_indexes /\ ~HoldEqual(documents, "k"))
          => ~HoldEqual(documents', "k")]_vars

\* C2: insert_one of a document whose value for a unique-indexed field is
\* held by a stored document raises the duplicate-key error and leaves the
\* documents, their count and the indexes' observed values as they were.
C2_DuplicateInsertRejected ==
    [][(/\ last'.op = "insert_one"
        /\ \E field \in unique_indexes :
              /\ field \in DOMAIN last'.arg
              /\ AnotherHolds(documents, 0, field, last'.arg[field]))
          => /\ last'.raised = "DuplicateKey"
             /\ documents' = documents
             /\ Cardinality(DOMAIN documents') = Cardinality(DOMAIN documents)
             /\ indexes' = indexes
             /\ unique_indexes' = unique_indexes]_vars

C2_Witness ==
    /\ last.op = "insert_one"
    /\ last.raised = "DuplicateKey"
    /\ "k" \in DOMAIN last.arg
    /\ AnotherHolds(documents, 0, "k", last.arg["k"])

C4_UpdateManyAllOrNothing ==
    [][(last'.op = "update_many" /\ last'.raised = "DuplicateKey")
          => documents' = documents]_vars

\* C9: update_one returns matched_count 1 iff a stored document matches
\* (else 0) and modified_count 1 iff the document changed; update_many
\* returns the number of documents that matched before the call and the
\* number of documents it changed; modified_count <= matched_count.
Matching(docs, filter_dict) ==
    {id \in DOMAIN docs :
        \A key \in DOMAIN filter_dict :
            key \in DOMAIN docs[id] /\ docs[id][key] = filter_dict[key]}
Changed(before, after) ==
    {id \in DOMAIN before : id \notin DOMAIN after \/ after[id] # before[id]}

C9_UpdateCounts ==
    [][(last'.op \in {"update_one", "update_many"} /\ last'.raised = "none")
          => LET hits == Cardinality(Matching(documents, last'.arg))
                 changed == Cardinality(Changed(documents, documents'))
             IN /\ last'.op = "update_one" =>
                      /\ last'.matched = (IF hits > 0 THEN 1 ELSE 0)
                      /\ last'.modified = changed
                      /\ changed <= 1
                /\ last'.op = "update_many" =>
                      /\ last'.matched = hits
                      /\ last'.modified = changed
                /\ last'.modified <= last'.matched]_vars

C9_Witness ==
    /\ last.op = "update_many"
    /\ last.raised = "none"
    /\ last.matched = 2
    /\ last.modified = 1

\* C5: every stored document's _id is the identifier it is keyed under (so
\* the _id fields of distinct documents differ), whatever updates ran.
C5_IdImmutable ==
    \A id \in DOMAIN documents :
        "_id" \in DOMAIN documents[id] /\ documents[id]["_id"] = Uuid(id)

\* C6: right after insert_one(d) returned identifier i, find_one({_id: i})
\* returns a document with identifier i and exactly the other fields of d.
C6_InsertLookupRoundTrip ==
    (last.op = "insert_one" /\ last.raised = "none")
        => LET found == FindOneResult(Dict1("_id", last.ret))
           IN /\ found # Null
              /\ DOMAIN found = (DOMAIN last.arg) \cup {"_id"}
              /\ found["_id"] = last.ret
              /\ \A f \in DOMAIN last.arg \ {"_id"} : found[f] = last.arg[f]

C6_Witness ==
    /\ last.op = "insert_one"
    /\ last.raised = "none"
    /\ "k" \in DOMAIN last.arg
    /\ Cardinality(DOMAIN documents) = 2
    /\ FindOneResult(Dict1("_id", last.ret)) # Null

\* C7: a mutation the caller makes to an object it passed in or got back
\* changes no stored document.
Stored == [id \in DOMAIN documents |-> Deepcopy(documents[id])]

C7_CallerMutationIsolated ==
    [][last'.op \in {"caller_mutate", "mutate_returned"} => Stored' = Stored]_vars

\* C10: after the caller has applied update_one with {"$inc": {n: delta}}
\* `calls` times to a document, its field n is the original value (0 when
\* n was absent) plus calls * delta, its other fields are as they were, and
\* so is every other document.
IncTarget ==
    LET hits == Matching(driver.orig, driver.filter)
    IN IF hits = {} THEN 0 ELSE CHOOSE id \in hits : \A o \in hits : id <= o

C10_IncAccumulates ==
    driver.calls > 0 =>
        /\ DOMAIN documents = DOMAIN driver.orig
        /\ \A id \in DOMAIN documents :
              LET before == driver.orig[id]
                  start == IF "n" \in DOMAIN before THEN before["n"].i ELSE 0
              IN IF id = IncTarget
                 THEN documents[id] =
                         [f \in DOMAIN before \cup {"n"} |->
                             IF f = "n" THEN IntV(start + driver.calls * driver.delta)
                             ELSE before[f]]
                 ELSE documents[id] = before

C10_Witness ==
    /\ driver.calls = 2
    /\ driver.delta = 5
    /\ IncTarget # 0
    /\ "n" \notin DOMAIN driver.orig[IncTarget]
    /\ documents[IncTarget]["n"] = IntV(10)

\* C8: find yields exactly the stored documents that hold every key of the
\* filter with an equal value (all of them for the empty or absent
\* filter), find_one returns None iff there is none and else one of them,
\* count_documents returns their number, and a $match stage keeps exactly
\* them.
MatchingDocs(filter_dict) ==
    LET fd == IF filter_dict = Null THEN EmptyDict ELSE filter_dict
        ids == Matching(documents, fd)
    IN {documents[id] : id \in ids}
SeqRange(s) == {s[i] : i \in DOMAIN s}

C8_FilterSemantics ==
    LET want == MatchingDocs(last.arg)
    IN /\ last.op = "find" =>
             /\ SeqRange(last.ret) = want
             /\ Len(last.ret) = Cardinality(want)
       /\ last.op = "find_one" =>
             /\ last.ret = Null <=> want = {}
             /\ last.ret # Null => last.ret \in want
       /\ last.op = "count_documents" =>
             /\ last.ret = Cardinality(want)
             /\ last.ret = Len(FindResults(last.arg))
       /\ last.op = "aggregate" =>
             /\ last.raised = "none"
             /\ SeqRange(last.ret) = MatchingDocs(last.arg[1].config)
             /\ Len(last.ret) = Cardinality(MatchingDocs(last.arg[1].config))

C8_Witness ==
    /\ last.op = "find"
    /\ last.arg = Dict1("k", Null)
    /\ Len(last.ret) = 1
    /\ Cardinality(DOMAIN documents) = 2
    /\ \E id \in DOMAIN documents : "k" \notin DOMAIN documents[id]

\* The document the caller's program addresses (0 when the filter matches
\* none), the kind of program it runs, and the value it names.
PairTarget ==
    LET hits == Matching(driver.orig, driver.filter)
    IN IF hits = {} THEN 0 ELSE CHOOSE id \in hits : \A o \in hits : id <= o
PairOps == <<driver.prog[1][1].key, driver.prog[2][1].key>>
PairValue == driver.prog[1][1].val.d[CHOOSE f \in DOMAIN driver.prog[1][1].val.d : TRUE]
PairDone == driver.calls = 2 /\ last.raised = "none" /\ PairTarget # 0
Occurrences(s, value) == Cardinality({i \in DOMAIN s : s[i] = value})
Others(s, value) ==
    LET keep(x) == x # value
    IN SelectSeq(s, keep)

\* C11 as stated: "$inc" by n then by -n on field f leaves the document
\* equal to the document before the two updates, also when f was absent.
C11_IncInverseRestoresDocument ==
    (PairDone /\ PairOps = <<"$inc", "$inc">>) => documents = driver.orig

\* C11 amended: "$inc" by n then by -n on a field f that held an integer
\* leaves the document equal to the document before; when f was absent the
\* document ends with f = 0 and is otherwise equal; no other document
\* changes.
C11_IncInverseRestoresValue ==
    (PairDone /\ PairOps = <<"$inc", "$inc">>) =>
        /\ DOMAIN documents = DOMAIN driver.orig
        /\ \A id \in DOMAIN documents :
              LET before == driver.orig[id]
              IN IF id = PairTarget /\ "n" \notin DOMAIN before
                 THEN documents[id] =
                         [f \in DOMAIN before \cup {"n"} |->
                             IF f = "n" THEN IntV(0) ELSE before[f]]
                 ELSE documents[id] = before

C11_Witness ==
    /\ PairDone
    /\ PairOps = <<"$inc", "$inc">>
    /\ "n" \in DOMAIN driver.orig[PairTarget]
    /\ driver.mid[PairTarget]["n"] # driver.orig[PairTarget]["n"]
    /\ documents = driver.orig

\* C12 as stated: after "$addToSet" of v on f twice, f is an array holding
\* v exactly once, whatever array f held before, the second call changes
\* nothing and reports modified_count 0, and the other elements keep their
\* order.
C12_AddToSetExactlyOnce ==
    (/\ PairDone
     /\ PairOps = <<"$addToSet", "$addToSet">>
     /\ ("tags" \in DOMAIN driver.orig[PairTarget]
            => driver.orig[PairTarget]["tags"].t = "list")) =>
        LET before == driver.orig[PairTarget]
            old == IF "tags" \in DOMAIN before THEN before["tags"].a ELSE <<>>
            now == documents[PairTarget]["tags"]
        IN /\ now.t = "list"
           /\ Occurrences(now.a, PairValue) = 1
           /\ Others(now.a, PairValue) = Others(old, PairValue)
           /\ documents = driver.mid
           /\ last.modified = 0

\* C12 amended: the same, for an array f that held v at most once (or an
\* absent f); an array that already held v several times is left as it
\* is, with v still appearing as often.
C12_AddToSetIdempotent ==
    (/\ PairDone
     /\ PairOps = <<"$addToSet", "$addToSet">>
     /\ ("tags" \in DOMAIN driver.orig[PairTarget]
            => driver.orig[PairTarget]["tags"].t = "list")) =>
        LET before == driver.orig[PairTarget]
            old == IF "tags" \in DOMAIN before THEN before["tags"].a ELSE <<>>
            now == documents[PairTarget]["tags"]
        IN /\ now.t = "list"
           /\ Occurrences(now.a, PairValue) =
                 (IF Occurrences(old, PairValue) <= 1 THEN 1
                  ELSE Occurrences(old, PairValue))
           /\ Others(now.a, PairValue) = Others(old, PairValue)
           /\ \A id \in DOMAIN documents :
                 \A f \in DOMAIN documents[id] :
                    (id # PairTarget \/ f # "tags") =>
                        f \in DOMAIN driver.orig[id] /\ documents[id][f] = driver.orig[id][f]
           /\ documents = driver.mid
           /\ last.modified = 0

C12_Witness ==
    /\ PairDone
    /\ PairOps = <<"$addToSet", "$addToSet">>
    /\ "tags" \in DOMAIN driver.orig[PairTarget]
    /\ driver.orig[PairTarget]["tags"] = ListV(<<IntV(2), IntV(1)>>)
    /\ PairValue = IntV(3)
    /\ documents[PairTarget]["tags"] = ListV(<<IntV(2), IntV(1), IntV(3)>>)
    /\ last.modified = 0

\* C13: "$pull" of v leaves the array field without any element equal to
\* v and with its other elements in order, changes nothing when the field
\* is absent or not an array, and "$pull" of v followed by "$addToSet" of
\* v leaves v in the array exactly once.
C13_PullThenAddToSet ==
    (PairOps = <<"$pull", "$addToSet">> /\ PairTarget # 0 /\ driver.calls >= 1) =>
        LET before == driver.orig[PairTarget]
            pulled == driver.mid
            is_array == "tags" \in DOMAIN before /\ before["tags"].t = "list"
        IN /\ driver.calls = 1 =>
                 /\ last.raised = "none"
                 /\ IF is_array
                    THEN documents =
                            [driver.orig EXCEPT ![PairTarget]["tags"] =
                                ListV(Others(before["tags"].a, PairValue))]
                    ELSE documents = driver.orig
           /\ (driver.calls = 2 /\ (is_array \/ "tags" \notin DOMAIN before)) =>
                 /\ last.raised = "none"
                 /\ documents[PairTarget]["tags"].t = "list"
                 /\ Occurrences(documents[PairTarget]["tags"].a, PairValue) = 1
                 /\ Others(documents[PairTarget]["tags"].a, PairValue)
                       = Others(IF is_array THEN before["tags"].a ELSE <<>>, PairValue)

C13_Witness ==
    /\ PairDone
    /\ PairOps = <<"$pull", "$addToSet">>
    /\ PairValue = IntV(1)
    /\ "tags" \in DOMAIN driver.orig[PairTarget]
    /\ driver.orig[PairTarget]["tags"] = ListV(<<IntV(1), IntV(2), IntV(1)>>)
    /\ driver.mid[PairTarget]["tags"] = ListV(<<IntV(2)>>)
    /\ documents[PairTarget]["tags"] = ListV(<<IntV(2), IntV(1)>>)

\* What the update_dict lists, and the document one update_dict makes of
\* a document: the merge for bare fields, the operator's effect for one
\* recognized operator.
UpdKeys(update_dict) == {update_dict[i].key : i \in DOMAIN update_dict}
UpdVal(update_dict, k) ==
    update_dict[CHOOSE i \in DOMAIN update_dict : update_dict[i].key = k].val
IsBare(update_dict) == UpdKeys(update_dict) \cap Operators = {}
IsOneOperator(update_dict) ==
    Len(update_dict) = 1 /\ update_dict[1].key \in {"$set", "$unset", "$inc"}
Expected(doc, update_dict) ==
    IF IsBare(update_dict)
    THEN [f \in DOMAIN doc \cup UpdKeys(update_dict) |->
             IF f \in UpdKeys(update_dict) THEN UpdVal(update_dict, f) ELSE doc[f]]
    ELSE LET operation == update_dict[1].key
             listed == update_dict[1].val.d
         IN IF operation = "$set"
            THEN [f \in DOMAIN doc \cup DOMAIN listed |->
                     IF f \in DOMAIN listed THEN listed[f] ELSE doc[f]]
            ELSE IF operation = "$unset"
            THEN [f \in DOMAIN doc \ DOMAIN listed |-> doc[f]]
            ELSE [f \in DOMAIN doc \cup DOMAIN listed |->
                     IF f \notin DOMAIN listed THEN doc[f]
                     ELSE IF f \in DOMAIN doc THEN IntV(doc[f].i + listed[f].i)
                     ELSE listed[f]]
UpdTargets ==
    IF last'.op = "update_one"
    THEN {id \in Matching(documents, last'.arg) :
             \A o \in Matching(documents, last'.arg) : id <= o}
    ELSE Matching(documents, last'.arg)

\* C14: an update_dict of bare field names is merged over each target
\* document, an update_dict of one recognized operator applies that
\* operator to the listed fields and leaves the others, the other stored
\* documents stay as they are, and no update stores a field whose name is
\* an operator name.
C14_UpdateInterpretation ==
    [][(last'.op \in {"update_one", "update_many"} /\ last'.raised = "none")
          => /\ (IsBare(last'.upd) \/ IsOneOperator(last'.upd)) =>
                    documents' = [id \in DOMAIN documents |->
                                     IF id \in UpdTargets
                                     THEN Expected(documents[id], last'.upd)
                                     ELSE documents[id]]
             /\ \A id \in DOMAIN documents' :
                    DOMAIN documents'[id] \cap Operators = {}]_vars

\* C15 as stated: after delete_one or delete_many no stored document
\* matches the filter, deleted_count is the number of documents that
\* matched before the call, and every other document is stored unchanged.
C15_DeleteRemovesAllMatching ==
    [][last'.op \in {"delete_one", "delete_many"}
          => LET hits == Matching(documents, last'.arg)
             IN /\ Matching(documents', last'.arg) = {}
                /\ last'.ret = Cardinality(hits)
                /\ \A id \in DOMAIN documents \ hits :
                       id \in DOMAIN documents' /\ documents'[id] = documents[id]]_vars

\* C15 amended: delete_many removes exactly the matching documents and
\* returns their number; delete_one removes exactly the first matching
\* document (in insertion order) and returns 1, or removes nothing and
\* returns 0 when none matches; every other document is stored unchanged.
C15_DeleteFrame ==
    [][last'.op \in {"delete_one", "delete_many"}
          => LET hits == Matching(documents, last'.arg)
                 gone == IF last'.op = "delete_many" THEN hits
                         ELSE {id \in hits : \A o \in hits : id <= o}
             IN /\ DOMAIN documents' = DOMAIN documents \ gone
                /\ last'.ret = Cardinality(gone)
                /\ last'.op = "delete_many" => Matching(documents', last'.arg) = {}
                /\ \A id \in DOMAIN documents' : documents'[id] = documents[id]]_vars

C15_Witness ==
    /\ last.op = "delete_many"
    /\ last.arg = Dict1("k", IntV(1))
    /\ last.ret = 1
    /\ Cardinality(DOMAIN documents) = 1

\* C16: create_index never raises and never changes documents, a second
\* create_index with the same arguments leaves the index state of the
\* first, and once a unique index exists insert_one of a value a stored
\* document holds for the field is rejected.
C16_CreateIndexTotal ==
    [][/\ last'.op = "create_index" =>
             /\ last'.raised = "none"
             /\ documents' = documents
             /\ (last.op = "create_index" /\ last.arg = last'.arg /\ last.upd = last'.upd)
                   => (indexes' = indexes /\ unique_indexes' = unique_indexes)
       /\ (/\ last'.op = "insert_one"
           /\ \E field \in unique_indexes :
                 /\ field \in DOMAIN last'.arg
                 /\ AnotherHolds(documents, 0, field, last'.arg[field]))
             => (last'.raised = "DuplicateKey" /\ documents' = documents)]_vars

\* C17: every index's observed-value set is the set of values the stored
\* documents hold for the indexed field.
C17_IndexTracksDocuments ==
    \A i \in DOMAIN indexes :
        indexes[i].vals =
            {documents[id][indexes[i].field] :
                id \in {x \in DOMAIN documents : indexes[i].field \in DOMAIN documents[x]}}

\* The stage of the one-stage pipeline the last aggregate call ran.
LastStage == last.arg[1]
RanStage(name) == last.op = "aggregate" /\ LastStage.name = name

\* C18: [{"$group": {"_id": "$f", "count": {"$sum": 1}}}] returns exactly
\* one document per distinct value of f among the stored documents (the
\* documents lacking f counted with the null key), holding that value
\* under _id and the number of documents of that value under count; the
\* counts add up to the number of stored documents.
KeyOfDoc(id) == IF "f" \in DOMAIN documents[id] THEN documents[id]["f"] ELSE Null
RECURSIVE SumCounts(_)
SumCounts(results) ==
    IF results = <<>> THEN 0 ELSE Head(results)["count"].i + SumCounts(Tail(results))

SortFields == {LastStage.config[i].field : i \in DOMAIN LastStage.config}
RawTuple(doc) == [i \in DOMAIN LastStage.config |-> doc[LastStage.config[i].field].i]
TupleLeq(a, b) ==
    \/ a = b
    \/ \E i \in DOMAIN a : a[i] < b[i] /\ \A j \in 1..(i - 1) : a[j] = b[j]
SameBag(s1, s2) ==
    /\ Len(s1) = Len(s2)
    /\ \A x \in SeqRange(s1) \cup SeqRange(s2) :
          Cardinality({i \in DOMAIN s1 : s1[i] = x}) = Cardinality({i \in DOMAIN s2 : s2[i] = x})

C19_SortOrder ==
    (/\ RanStage("$sort")
     /\ \A id \in DOMAIN documents : \A field \in SortFields :
           field \in DOMAIN documents[id] /\ documents[id][field].t = "int") =>
        LET descending == \E i \in DOMAIN LastStage.config : LastStage.config[i].direction = -1
        IN /\ last.raised = "none"
           /\ SameBag(last.ret, [i \in DOMAIN DocIds |-> documents[DocIds[i]]])
           /\ \A i \in DOMAIN last.ret, j \in DOMAIN last.ret :
                 i < j => IF descending
                          THEN TupleLeq(RawTuple(last.ret[j]), RawTuple(last.ret[i]))
                          ELSE TupleLeq(RawTuple(last.ret[i]), RawTuple(last.ret[j]))

\* C20: when every listed field maps to 1 (the identifier possibly to 0)
\* an output document of "$project" holds exactly the listed fields the
\* input document has, plus the identifier unless it is listed with 0;
\* when every listed field maps to 0 it holds exactly the input document's
\* fields except the listed ones.
C20_ProjectSelectsFields ==
    RanStage("$project") =>
        LET config == LastStage.config
            listed == DOMAIN config
            exclusion == \A field \in listed : config[field] = 0
            inclusion == \A field \in listed \ {"_id"} : config[field] = 1
            kept(doc) ==
                IF exclusion THEN DOMAIN doc \ listed
                ELSE (DOMAIN doc \cap {field \in listed : config[field] = 1})
                     \cup (IF "_id" \in listed /\ config["_id"] = 0 THEN {}
                           ELSE DOMAIN doc \cap {"_id"})
        IN (exclusion \/ inclusion) =>
              /\ last.raised = "none"
              /\ Len(last.ret) = Cardinality(DOMAIN documents)
              /\ \A i \in DOMAIN last.ret :
                    LET doc == documents[DocIds[i]]
                    IN last.ret[i] = [field \in kept(doc) |-> doc[field]]

\* C21: with d1..dn the stored documents matching the filter, in insertion
\* order, iterating the cursor after skip(s) and limit(l), called in
\* either order, yields d(s+1)..d(min(s+l, n)).
MatchingSeq(filter_dict) ==
    LET keep(id) == id \in Matching(documents, OrEmpty(filter_dict))
        ids == SelectSeq(DocIds, keep)
    IN [i \in DOMAIN ids |-> documents[ids[i]]]

C21_SkipThenLimit ==
    (last.op = "iter" /\ driver.skip >= 0 /\ driver.limit >= 0) =>
        LET d == MatchingSeq(driver.filter)
        IN last.ret = SubSeq(d, driver.skip + 1, Min2(driver.skip + driver.limit, Len(d)))

C21_Witness ==
    /\ last.op = "iter"
    /\ driver.skip = 1
    /\ driver.limit = 1
    /\ Len(MatchingSeq(driver.filter)) = 3
    /\ last.ret = <<MatchingSeq(driver.filter)[2]>>

\* C22: a cursor that has been iterated to the end yields no document when
\* it is iterated again.
C22_CursorOneShot ==
    (last.op = "iter" /\ driver.iterations >= 2) => last.ret = <<>>

\* C23: over serial initialize, disconnect and get_database calls,
\* get_database fails with the not-initialized error exactly when no
\* initialize has completed since the start or the last disconnect, and
\* otherwise returns the instance the most recent initialize created.
C23_FactoryLifecycle ==
    (last.op = "get_database" /\ last.raised # "running") =>
        /\ last.raised = "NotInitialized" <=> ~driver.completed
        /\ last.raised = "none" => last.ret = driver.created

\* C24: over serial initialize and disconnect calls every backend
\* instance the factory created, other than the one in its slot, is
\* disconnected, at every point of every call.
C24_SingleActiveBackend ==
    \A a \in DOMAIN adapters : a # instance => ~IsConnected(adapters[a])

C24_Witness ==
    /\ Len(adapters) = 2
    /\ instance = 2
    /\ IsConnected(adapters[2])
    /\ adapters[1].closed
    /\ ~IsConnected(adapters[1])

\* C29: when connect raises during initialize, the factory is
\* uninitialized afterwards.
C29_FailedInitializeLeavesNothing ==
    (last.op = "initialize" /\ last.raised = "ConnectionFailure") => instance = 0

\* C27: a backend instance that is connected without being the factory's
\* active instance, or a get_database that returns an instance that has
\* been disconnected, occurs only when calls of the factory overlapped;
\* with overlapping calls both occur.
Orphaned == \E a \in DOMAIN adapters : a # instance /\ IsConnected(adapters[a])
ReturnedDisconnected ==
    /\ last.op = "get_database"
    /\ last.raised = "none"
    /\ last.ret # 0
    /\ adapters[last.ret].closed
    /\ ~IsConnected(adapters[last.ret])

C27_OnlyWhenCallsOverlap ==
    (Orphaned \/ ReturnedDisconnected) => driver.overlapped

C27_Witness ==
    /\ AllIdle
    /\ instance # 0
    /\ Orphaned
    /\ \A a \in DOMAIN adapters : ~adapters[a].closed

C27_WitnessReturned ==
    /\ ReturnedDisconnected
    /\ driver.overlapped

\* C25: with the embedded backend, get_collection(name) returns the same
\* collection every time between connect and disconnect; a read on a
\* collection obtained after a disconnect and a new connect or initialize
\* returns no document inserted before the disconnect, and ci_id and
\* user_id on users, ci_id and app_id on applications are unique again.
CurrentHandles == UNION {driver.handles[n] : n \in DOMAIN driver.handles}
NoDuplicates(c, field) ==
    \A x, y \in DOMAIN c.documents :
        (x # y /\ field \in DOMAIN c.documents[x] /\ field \in DOMAIN c.documents[y])
            => c.documents[x][field] # c.documents[y][field]
StandardUnique ==
    {<<"users", "ci_id">>, <<"users", "user_id">>,
     <<"applications", "ci_id">>, <<"applications", "app_id">>}

C25_CollectionLifetime ==
    /\ \A n \in DOMAIN driver.handles : Cardinality(driver.handles[n]) = 1
    /\ (last.op = "find" /\ last.upd \in CurrentHandles) =>
          \A i \in DOMAIN last.ret : last.ret[i]["_id"].u \notin driver.old
    /\ \A e \in StandardUnique :
          e[1] \in DOMAIN driver.handles =>
             \A h \in driver.handles[e[1]] : NoDuplicates(colls[h], e[2])

C25_Witness ==
    /\ last.op = "insert_one"
    /\ last.raised = "DuplicateKey"
    /\ last.upd \in CurrentHandles
    /\ colls[last.upd].name = "users"
    /\ \E h \in driver.held \ CurrentHandles :
          /\ colls[h].name = "users"
          /\ \E id \in DOMAIN colls[h].documents :
                /\ id \in driver.old
                /\ colls[h].documents[id]["ci_id"] = last.arg["ci_id"]

\* C30: after clear_all_collections on a connected adapter every
\* collection holds no documents and the unique indexes built at connect
\* are still enforced.
C30_ClearKeepsConstraints ==
    /\ last.op = "clear_all_collections" =>
          \A n \in DOMAIN adapters[instance].collections :
              colls[adapters[instance].collections[n]].documents = <<>>
    /\ driver.cleared =>
          \A e \in StandardUnique :
             e[1] \in DOMAIN adapters[instance].collections =>
                NoDuplicates(colls[adapters[instance].collections[e[1]]], e[2])

\* C26: two insert_one calls with equal values for a unique-indexed field
\* that run concurrently, scan and store as separate steps, can both
\* succeed and leave two documents with equal values for the field; calls
\* that do not overlap never do.
EqualUniqueValues ==
    \E field \in unique_indexes : \E x, y \in DOMAIN documents :
        /\ x # y
        /\ field \in DOMAIN documents[x]
        /\ field \in DOMAIN documents[y]
        /\ documents[x][field] = documents[y][field]

C26_DuplicatesOnlyWhenOverlapped == EqualUniqueValues => driver.overlapped

C26_Witness ==
    /\ AllIdle
    /\ DOMAIN documents = {1, 2}
    /\ \A id \in {1, 2} : "k" \in DOMAIN documents[id]
    /\ documents[1]["k"] = IntV(1)
    /\ documents[2]["k"] = IntV(1)
    /\ last.op = "insert_one"
    /\ last.raised = "none"

\* C28: when no stored document holds value v for a unique-indexed field
\* any more (its holder was deleted, or had the field changed or removed)
\* while the index's set of observed values still contains v, insert_one
\* of a document with value v for that field succeeds.
Holds(doc, field, value) == field \in DOMAIN doc /\ PyEq(doc[field], value)
Freed(field, value) ==
    /\ \E i \in DOMAIN indexes : indexes[i].field = field /\ value \in indexes[i].vals
    /\ \A id \in DOMAIN documents : ~Holds(documents[id], field, value)

C28_FreedValueInsertable ==
    [][(/\ last'.op = "insert_one"
        /\ \E field \in unique_indexes \cap DOMAIN last'.arg :
              Freed(field, last'.arg[field])
        /\ \A field \in unique_indexes \cap DOMAIN last'.arg :
              \A id \in DOMAIN documents :
                  ~Holds(documents[id], field, last'.arg[field]))
       => last'.raised = "none"]_vars

====
